---- MODULE Spec2Model ----
(***************************************************************************)
(* Model of the hierarchical state store (workspaces -> folders -> files), *)
(* the sidebar Dropdown handlers that drive it, and the data-access        *)
(* functions (queries) in front of the persistence service.                *)
(*                                                                         *)
(* JavaScript values are encoded as follows: a string that is only stored  *)
(* and compared is a TLA+ string; null and undefined are the reserved      *)
(* strings NULL and UNDEFINED; an identifier or key that the code splits   *)
(* or concatenates is a sequence of one-character strings.                 *)
(***************************************************************************)
EXTENDS Integers, Sequences, FiniteSets, TLC

VARIABLES
    state,      \* the store: [workspaces, workspaceId, folderId]
    last,       \* the last action handed to dispatch
    before,     \* <<workspaceId, folder id>> when the action before that one was an ADD_FOLDER
    issued,     \* ids already produced by v4()
    steps,      \* number of dispatches (Spec) or of handler runs (SpecUI) so far
    keyTest,    \* a composite key being built and parsed: [pc, folderId, fileId, key, parts]
    da,         \* a data-access call, or the last one that returned: [pc, fn, id, ops, result, path]
    userEmail,  \* user?.email of the signed-in user, or UNDEFINED
    db,         \* persistence: [workspaces, folders, files, collaborators], each the set of rows of a table
    calls,      \* persistence calls of the handlers that are in flight
    toast,      \* the last notification shown
    handler,    \* the last handler run: [name, id, listType, acted]
    isEditing,  \* the nodes whose title input is in editing mode (isEditing of each node)
    tasks,      \* per-user callbacks of addCollaborators / removeCollaborators in flight
    log,        \* the collaborators table at the start, then the collaborator calls made
    listed,     \* the last workspace listing computed: [fn, userId, rows]
    req,        \* a request through the middleware: [pc, path, session, response]
    mounted,    \* CollaboratorSearch is mounted
    input,      \* the value of the Email input of CollaboratorSearch (e.target.value)
    timerRef,   \* timerRef.current: the handle of the last timer set, 0 for undefined
    timers,     \* the handles of the timers that are pending
    searches,   \* calls of getUsersFromSearch in flight: [n, email]
    issuedQuery,   \* the last call of getUsersFromSearch made: [n, email]
    searchResults  \* the searchResults state of CollaboratorSearch

storeVars == <<state, last, before, issued, steps>>

uiVars == <<userEmail, db, calls, toast, handler, isEditing>>

searchVars == <<mounted, input, timerRef, timers, searches, issuedQuery, searchResults>>

serverVars == <<tasks, log, listed, req, searchVars>>

vars == <<state, last, before, issued, steps, keyTest, da, userEmail, db, calls, toast, handler,
          isEditing, tasks, log, listed, req, mounted, input, timerRef, timers, searches,
          issuedQuery, searchResults>>

(***************************************************************************)
(* Bounds and value sets                                                   *)
(***************************************************************************)
MaxSteps == 4

(* an id that is absent (undefined); the code tests ids only with ! and === *)
NoId == <<>>

NULL == "<null>"
UNDEFINED == "<undefined>"

W1 == <<"a", "1">>
W2 == <<"a", "2">>
F1 == <<"f", "1">>
F2 == <<"f", "2">>
G1 == <<"c", "1">>
G2 == <<"c", "2">>

WsIdSeq == <<W1, W2>>
FolderIdSeq == <<F1, F2>>
FileIdSeq == <<G1, G2>>

Range(q) == {q[i] : i \in 1..Len(q)}

WsIds == Range(WsIdSeq)
FolderIds == Range(FolderIdSeq)
FileIds == Range(FileIdSeq)

Email == "u@x"
DeletedBy(email) == "Deleted by " \o email

(***************************************************************************)
(* Derived read accessors of the store                                     *)
(***************************************************************************)
NotFound == [found |-> FALSE]

Find(q, id) ==
    IF \E i \in 1..Len(q) : q[i].id = id
    THEN q[CHOOSE i \in 1..Len(q) : q[i].id = id /\ \A j \in 1..(i - 1) : q[j].id # id]
    ELSE NotFound

FindWorkspace(s, w) == Find(s.workspaces, w)

FindFolder(s, w, f) ==
    LET ws == FindWorkspace(s, w)
    IN  IF ws = NotFound THEN NotFound ELSE Find(ws.folders, f)

FindFile(s, w, f, g) ==
    LET fo == FindFolder(s, w, f)
    IN  IF fo = NotFound THEN NotFound ELSE Find(fo.files, g)

(* !v of JavaScript for the values a trash marker or a title can hold *)
NotMutant(v) == v = ""

Not(v) == v \in {NULL, UNDEFINED, ""}

(* the files a folder node lists: state.workspaces.find(..)?.folders.find(..)  *)
(* ?.files.filter((file) => !file.inTrash); undefined when a find fails        *)
NonTrashedFiles(s, workspaceId, id) ==
    LET fo == FindFolder(s, workspaceId, id)
    IN  IF fo = NotFound THEN UNDEFINED
        ELSE SelectSeq(fo.files, LAMBDA file : Not(file.inTrash))

(***************************************************************************)
(* The reducer: dispatch(action) -> new state                              *)
(***************************************************************************)
Merge(node, partial) ==
    [k \in DOMAIN node |-> IF k \in DOMAIN partial THEN partial[k] ELSE node[k]]

WithFolders(w) ==
    IF "folders" \in DOMAIN w THEN w
    ELSE [k \in DOMAIN w \cup {"folders"} |-> IF k = "folders" THEN <<>> ELSE w[k]]

WithFiles(f) ==
    IF "files" \in DOMAIN f THEN f
    ELSE [k \in DOMAIN f \cup {"files"} |-> IF k = "files" THEN <<>> ELSE f[k]]

(* workspaces.map((ws) => ws.id === w ? op(ws) : ws): image[i] is op of the
   i-th workspace of s *)
MapWorkspace(s, w, image) ==
    [s EXCEPT !.workspaces =
        [i \in 1..Len(s.workspaces) |->
            IF s.workspaces[i].id = w THEN image[i] ELSE s.workspaces[i]]]

(* the same one level down: image[i][j] is op of the j-th folder of the i-th
   workspace of s *)
MapFolder(s, w, f, image) ==
    MapWorkspace(s, w,
        [i \in 1..Len(s.workspaces) |->
            [s.workspaces[i] EXCEPT !.folders =
                [j \in 1..Len(s.workspaces[i].folders) |->
                    IF s.workspaces[i].folders[j].id = f
                    THEN image[i][j] ELSE s.workspaces[i].folders[j]]]])

(* [ws in workspaces |-> ...] and [fo in folders |-> ...] by position *)
WorkspaceAt(s, i) == s.workspaces[i]

FolderAt(s, i, j) == s.workspaces[i].folders[j]

WorkspaceIndices(s) == 1..Len(s.workspaces)

FolderIndices(s, i) == 1..Len(s.workspaces[i].folders)

Without(q, id) == SelectSeq(q, LAMBDA n : n.id # id)

AddFolderMutant(s, a) ==
    [s EXCEPT !.workspaces =
        [i \in 1..Len(s.workspaces) |->
            [s.workspaces[i] EXCEPT !.folders = Append(@, WithFiles(a.folder))]]]

AddFolder(s, a) ==
    MapWorkspace(s, a.workspaceId,
        [i \in WorkspaceIndices(s) |->
            [WorkspaceAt(s, i) EXCEPT !.folders = Append(@, WithFiles(a.folder))]])

DeleteWorkspaceMutant(s, a) ==
    MapWorkspace(s, a.workspaceId,
        [i \in WorkspaceIndices(s) |-> [WorkspaceAt(s, i) EXCEPT !.folders = <<>>]])

DeleteWorkspace(s, a) ==
    [s EXCEPT !.workspaces = Without(@, a.workspaceId)]

UpdateFolderMutant(s, a) ==
    MapFolder(s, a.workspaceId, a.folderId,
        [i \in WorkspaceIndices(s) |-> [j \in FolderIndices(s, i) |->
            [k \in DOMAIN FolderAt(s, i, j) |->
                IF k \in DOMAIN a.folder THEN a.folder[k]
                ELSE IF k = "files" THEN <<>> ELSE FolderAt(s, i, j)[k]]]])

UpdateFolder(s, a) ==
    MapFolder(s, a.workspaceId, a.folderId,
        [i \in WorkspaceIndices(s) |-> [j \in FolderIndices(s, i) |->
            Merge(FolderAt(s, i, j), a.folder)]])

AddFileMutant(s, a) ==
    MapWorkspace(s, a.workspaceId,
        [i \in WorkspaceIndices(s) |->
            [WorkspaceAt(s, i) EXCEPT !.folders =
                [j \in FolderIndices(s, i) |->
                    [FolderAt(s, i, j) EXCEPT !.files = Append(@, a.file)]]]])

AddFile(s, a) ==
    MapFolder(s, a.workspaceId, a.folderId,
        [i \in WorkspaceIndices(s) |-> [j \in FolderIndices(s, i) |->
            [FolderAt(s, i, j) EXCEPT !.files = Append(@, a.file)]]])

Reducer(s, a) ==
    CASE a.type = "SET_WORKSPACES" ->
            [s EXCEPT !.workspaces =
                [i \in 1..Len(a.workspaces) |-> WithFolders(a.workspaces[i])]]
      [] a.type = "ADD_WORKSPACE" ->
            [s EXCEPT !.workspaces = Append(@, WithFolders(a.workspace))]
      [] a.type = "UPDATE_WORKSPACE" ->
            MapWorkspace(s, a.workspaceId,
                [i \in WorkspaceIndices(s) |-> Merge(WorkspaceAt(s, i), a.workspace)])
      [] a.type = "DELETE_WORKSPACE" -> DeleteWorkspace(s, a)
      [] a.type = "SET_FOLDERS" ->
            MapWorkspace(s, a.workspaceId,
                [i \in WorkspaceIndices(s) |->
                    [WorkspaceAt(s, i) EXCEPT !.folders =
                        [j \in 1..Len(a.folders) |-> WithFiles(a.folders[j])]]])
      [] a.type = "ADD_FOLDER" -> AddFolder(s, a)
      [] a.type = "UPDATE_FOLDER" -> UpdateFolder(s, a)
      [] a.type = "DELETE_FOLDER" ->
            MapWorkspace(s, a.workspaceId,
                [i \in WorkspaceIndices(s) |->
                    [WorkspaceAt(s, i) EXCEPT !.folders = Without(@, a.folderId)]])
      [] a.type = "SET_FILES" ->
            MapFolder(s, a.workspaceId, a.folderId,
                [i \in WorkspaceIndices(s) |-> [j \in FolderIndices(s, i) |->
                    [FolderAt(s, i, j) EXCEPT !.files = a.files]]])
      [] a.type = "ADD_FILE" -> AddFile(s, a)
      [] a.type = "UPDATE_FILE" ->
            MapFolder(s, a.workspaceId, a.folderId,
                [i \in WorkspaceIndices(s) |-> [j \in FolderIndices(s, i) |->
                    [FolderAt(s, i, j) EXCEPT !.files =
                        [k \in 1..Len(@) |->
                            IF @[k].id = a.fileId
                            THEN Merge(@[k], a.file) ELSE @[k]]]]])
      [] a.type = "DELETE_FILE" ->
            MapFolder(s, a.workspaceId, a.folderId,
                [i \in WorkspaceIndices(s) |-> [j \in FolderIndices(s, i) |->
                    [FolderAt(s, i, j) EXCEPT !.files = Without(@, a.fileId)]]])
      [] a.type = "SET_CURRENT_WORKSPACE" -> [s EXCEPT !.workspaceId = a.workspaceId]
      [] a.type = "SET_CURRENT_FOLDER" -> [s EXCEPT !.folderId = a.folderId]
      [] OTHER -> s

(***************************************************************************)
(* Node values as the callers build them                                   *)
(***************************************************************************)
NewWorkspace(w) == [id |-> w, title |-> "W", inTrash |-> "", folders |-> <<>>]

NewFolder(w, f) ==
    [id |-> f, workspaceId |-> w, title |-> "Untitled", iconId |-> "folder-icon",
     inTrash |-> "", files |-> <<>>]

NewFile(w, f, g) ==
    [folderId |-> f, inTrash |-> NULL, title |-> "Untitled", iconId |-> "file-icon",
     id |-> g, workspaceId |-> w]

WorkspacePartials == {[title |-> "X"], [inTrash |-> DeletedBy(Email)]}

FolderPartials ==
    {[title |-> "X"], [inTrash |-> DeletedBy(Email)], [title |-> "X", iconId |-> "E"]}

FilePartials ==
    {[title |-> "X"], [inTrash |-> DeletedBy(Email)], [inTrash |-> ""]}

(* v4(): an id that was never produced before *)
v4Mutant(pool) == pool

v4(pool) == {id \in pool : \A p \in issued : p[1] # id}

(* ids a listing read from persistence for parent p may hold: rows are keyed *)
(* by id and a row's parent reference never changes                          *)
RowsOf(pool, p) == {id \in pool : \A q \in issued : q[1] = id => q[2] = p}

SortedSeq(order, S) == SelectSeq(order, LAMBDA id : id \in S)

(***************************************************************************)
(* dispatch                                                                *)
(***************************************************************************)
dispatch(a) ==
    /\ last' = a
    /\ before' = IF last.type = "ADD_FOLDER"
                 THEN <<last.workspaceId, last.folder.id>> ELSE <<>>
    /\ state' = Reducer(state, a)

Root == <<>>

(* any action handed to the store, whoever the caller *)
StoreAction(a) ==
    /\ steps < MaxSteps
    /\ steps' = steps + 1
    /\ dispatch(a)
    /\ UNCHANGED <<keyTest, serverVars, da, uiVars>>

DispatchSetWorkspaces ==
    \E S \in SUBSET RowsOf(WsIds, Root) :
        /\ StoreAction([type |-> "SET_WORKSPACES",
                     workspaces |-> [i \in 1..Len(SortedSeq(WsIdSeq, S)) |->
                                        NewWorkspace(SortedSeq(WsIdSeq, S)[i])]])
        /\ issued' = issued \cup {<<w, Root>> : w \in S}

DispatchAddWorkspace ==
    \E w \in v4(WsIds) :
        /\ StoreAction([type |-> "ADD_WORKSPACE", workspace |-> NewWorkspace(w)])
        /\ issued' = issued \cup {<<w, Root>>}

DispatchUpdateWorkspace ==
    \E w \in WsIds, p \in WorkspacePartials :
        /\ StoreAction([type |-> "UPDATE_WORKSPACE", workspaceId |-> w, workspace |-> p])
        /\ UNCHANGED issued

DispatchDeleteWorkspace ==
    \E w \in WsIds :
        /\ StoreAction([type |-> "DELETE_WORKSPACE", workspaceId |-> w])
        /\ UNCHANGED issued

DispatchSetFolders ==
    \E w \in WsIds : \E S \in SUBSET RowsOf(FolderIds, w) :
        /\ StoreAction([type |-> "SET_FOLDERS", workspaceId |-> w,
                     folders |-> [i \in 1..Len(SortedSeq(FolderIdSeq, S)) |->
                                     NewFolder(w, SortedSeq(FolderIdSeq, S)[i])]])
        /\ issued' = issued \cup {<<f, w>> : f \in S}

DispatchAddFolder ==
    \E w \in WsIds : \E f \in v4(FolderIds) :
        /\ StoreAction([type |-> "ADD_FOLDER", workspaceId |-> w, folder |-> NewFolder(w, f)])
        /\ issued' = issued \cup {<<f, w>>}

DispatchUpdateFolder ==
    \E w \in WsIds, f \in FolderIds, p \in FolderPartials :
        /\ StoreAction([type |-> "UPDATE_FOLDER", workspaceId |-> w, folderId |-> f,
                     folder |-> p])
        /\ UNCHANGED issued

DispatchDeleteFolder ==
    \E w \in WsIds, f \in FolderIds :
        /\ StoreAction([type |-> "DELETE_FOLDER", workspaceId |-> w, folderId |-> f])
        /\ UNCHANGED issued

DispatchSetFiles ==
    \E w \in WsIds, f \in FolderIds : \E S \in SUBSET RowsOf(FileIds, f) :
        /\ <<f, w>> \in issued
        /\ StoreAction([type |-> "SET_FILES", workspaceId |-> w, folderId |-> f,
                     files |-> [i \in 1..Len(SortedSeq(FileIdSeq, S)) |->
                                   NewFile(w, f, SortedSeq(FileIdSeq, S)[i])]])
        /\ issued' = issued \cup {<<g, f>> : g \in S}

DispatchAddFile ==
    \E w \in WsIds, f \in FolderIds : \E g \in v4(FileIds) :
        /\ StoreAction([type |-> "ADD_FILE", workspaceId |-> w, folderId |-> f,
                     file |-> NewFile(w, f, g)])
        /\ issued' = issued \cup {<<g, f>>}

DispatchUpdateFile ==
    \E w \in WsIds, f \in FolderIds, g \in FileIds, p \in FilePartials :
        /\ StoreAction([type |-> "UPDATE_FILE", workspaceId |-> w, folderId |-> f,
                     fileId |-> g, file |-> p])
        /\ UNCHANGED issued

DispatchDeleteFile ==
    \E w \in WsIds, f \in FolderIds, g \in FileIds :
        /\ StoreAction([type |-> "DELETE_FILE", workspaceId |-> w, folderId |-> f,
                     fileId |-> g])
        /\ UNCHANGED issued

DispatchSetCurrentWorkspace ==
    \E w \in WsIds :
        /\ StoreAction([type |-> "SET_CURRENT_WORKSPACE", workspaceId |-> w])
        /\ UNCHANGED issued

DispatchSetCurrentFolder ==
    \E f \in FolderIds :
        /\ StoreAction([type |-> "SET_CURRENT_FOLDER", folderId |-> f])
        /\ UNCHANGED issued

InitStore ==
    /\ state = [workspaces |-> <<>>, workspaceId |-> NoId, folderId |-> NoId]
    /\ last = [type |-> "INIT"]
    /\ before = <<>>
    /\ issued = {}
    /\ steps = 0

KeyIdle == [pc |-> "idle"]

NoToast == [title |-> "none"]

NoHandler == [name |-> "none"]

NoTables == [workspaces |-> {}, folders |-> {}, files |-> {}, collaborators |-> {}]

InitUIIdle ==
    /\ userEmail = Email
    /\ db = NoTables
    /\ calls = {}
    /\ toast = NoToast
    /\ handler = NoHandler
    /\ isEditing = {}

NoListing == [fn |-> "none"]

ReqIdle == [pc |-> "idle"]

(* CollaboratorSearch as mounted: useState([]) and useRef() *)
InitSearch ==
    /\ mounted = TRUE
    /\ input = <<>>
    /\ timerRef = 0
    /\ timers = {}
    /\ searches = {}
    /\ issuedQuery = [n |-> 0]
    /\ searchResults = {}

InitServerIdle ==
    /\ tasks = {}
    /\ log = <<>>
    /\ listed = NoListing
    /\ req = ReqIdle
    /\ InitSearch

DaIdle == [pc |-> "idle"]

Init ==
    /\ InitStore
    /\ InitUIIdle
    /\ InitServerIdle
    /\ keyTest = KeyIdle
    /\ da = DaIdle

Next ==
    \/ DispatchSetWorkspaces
    \/ DispatchAddWorkspace
    \/ DispatchUpdateWorkspace
    \/ DispatchDeleteWorkspace
    \/ DispatchSetFolders
    \/ DispatchAddFolder
    \/ DispatchUpdateFolder
    \/ DispatchDeleteFolder
    \/ DispatchSetFiles
    \/ DispatchAddFile
    \/ DispatchUpdateFile
    \/ DispatchDeleteFile
    \/ DispatchSetCurrentWorkspace
    \/ DispatchSetCurrentFolder

Spec == Init /\ [][Next]_vars

(***************************************************************************)
(* Properties of the store                                                 *)
(***************************************************************************)
Workspaces == state.workspaces

FolderHolders(s, f) ==
    {i \in 1..Len(s.workspaces) :
        \E j \in 1..Len(s.workspaces[i].folders) : s.workspaces[i].folders[j].id = f}

FileHolders(s, g) ==
    UNION {{<<i, j>> : j \in {m \in 1..Len(s.workspaces[i].folders) :
                                \E k \in 1..Len(s.workspaces[i].folders[m].files) :
                                    s.workspaces[i].folders[m].files[k].id = g}} :
           i \in 1..Len(s.workspaces)}

FolderIdsOf(ws) == {ws.folders[j].id : j \in 1..Len(ws.folders)}

FileIdsOf(fo) == {fo.files[k].id : k \in 1..Len(fo.files)}

AllFolderIds(s) == UNION {FolderIdsOf(s.workspaces[i]) : i \in 1..Len(s.workspaces)}

AllFileIds(s) ==
    UNION {UNION {FileIdsOf(s.workspaces[i].folders[j]) :
                    j \in 1..Len(s.workspaces[i].folders)} :
           i \in 1..Len(s.workspaces)}

\* C1: every folder of the tree is held by exactly one workspace node, the one
\* its workspace reference names, and every file by exactly one folder node, the
\* one its folder reference names, whatever actions were dispatched.
C1_NoOrphans ==
    /\ \A f \in AllFolderIds(state) : Cardinality(FolderHolders(state, f)) = 1
    /\ \A g \in AllFileIds(state) : Cardinality(FileHolders(state, g)) = 1
    /\ \A i \in 1..Len(Workspaces) : \A j \in 1..Len(Workspaces[i].folders) :
          /\ Workspaces[i].folders[j].workspaceId = Workspaces[i].id
          /\ \A k \in 1..Len(Workspaces[i].folders[j].files) :
                Workspaces[i].folders[j].files[k].folderId = Workspaces[i].folders[j].id

C1_Witness ==
    /\ Len(Workspaces) = 2
    /\ AllFileIds(state) # {}
    /\ last.type = "ADD_FOLDER"
    /\ FindWorkspace(state, last.workspaceId) # NotFound
    /\ Cardinality(AllFolderIds(state)) = 2

\* C2: DELETE_WORKSPACE(w) removes w with all its folders and files: none of
\* their ids is found afterwards, and the other workspaces are as before.
C2_DeleteWorkspaceCascades ==
    [][last'.type = "DELETE_WORKSPACE" =>
        LET w == last'.workspaceId
            old == FindWorkspace(state, w)
        IN  /\ FindWorkspace(state', w) = NotFound
            /\ old # NotFound =>
                 /\ \A f \in FolderIdsOf(old) :
                       /\ f \notin AllFolderIds(state')
                       /\ \A v \in WsIds : FindFolder(state', v, f) = NotFound
                       /\ \A g \in FileIdsOf(Find(old.folders, f)) :
                             /\ g \notin AllFileIds(state')
                             /\ \A v \in WsIds, h \in FolderIds :
                                   FindFile(state', v, h, g) = NotFound
            /\ \A v \in WsIds \ {w} : FindWorkspace(state', v) = FindWorkspace(state, v)
            /\ Len(state'.workspaces) =
                 Len(state.workspaces) - Cardinality({i \in 1..Len(state.workspaces) :
                                                        state.workspaces[i].id = w})
    ]_vars

C2_Witness ==
    /\ last.type = "DELETE_WORKSPACE"
    /\ Len(Workspaces) = 1
    /\ Workspaces[1].id # last.workspaceId
    /\ <<F1, last.workspaceId>> \in issued
    /\ <<G1, F1>> \in issued
    /\ AllFolderIds(state) = {}

\* C3: UPDATE_FOLDER overwrites exactly the fields of the partial on the
\* addressed folder; its other fields (files included), its siblings and the
\* other workspaces keep their values.
C3_UpdateFolderShallowMerge ==
    [][last'.type = "UPDATE_FOLDER" =>
        LET a == last'
        IN  /\ Len(state'.workspaces) = Len(state.workspaces)
            /\ state'.workspaceId = state.workspaceId
            /\ state'.folderId = state.folderId
            /\ \A i \in 1..Len(state.workspaces) :
                 LET old == state.workspaces[i]
                     new == state'.workspaces[i]
                 IN  IF old.id # a.workspaceId THEN new = old
                     ELSE /\ \A k \in DOMAIN old \ {"folders"} : new[k] = old[k]
                          /\ Len(new.folders) = Len(old.folders)
                          /\ \A j \in 1..Len(old.folders) :
                               IF old.folders[j].id # a.folderId
                               THEN new.folders[j] = old.folders[j]
                               ELSE /\ DOMAIN new.folders[j] = DOMAIN old.folders[j]
                                    /\ \A k \in DOMAIN old.folders[j] :
                                         new.folders[j][k] =
                                            IF k \in DOMAIN a.folder THEN a.folder[k]
                                            ELSE old.folders[j][k]
    ]_vars

C3_Witness ==
    /\ last.type = "UPDATE_FOLDER"
    /\ DOMAIN last.folder = {"title"}
    /\ LET fo == FindFolder(state, last.workspaceId, last.folderId)
       IN  /\ fo # NotFound
           /\ fo.title = "X"
           /\ fo.files # <<>>
           /\ fo.iconId = "folder-icon"

FolderLevel == {"SET_FOLDERS", "ADD_FOLDER", "UPDATE_FOLDER", "DELETE_FOLDER"}

FileLevel == {"SET_FILES", "ADD_FILE", "UPDATE_FILE", "DELETE_FILE"}

ParentMissing(s, a) ==
    \/ a.type \in FolderLevel /\ FindWorkspace(s, a.workspaceId) = NotFound
    \/ a.type \in FileLevel /\ FindFolder(s, a.workspaceId, a.folderId) = NotFound

\* C4: a folder- or file-level action whose parent is not in the tree leaves
\* the tree and the navigation context as they were.
C4_MissingParentIsNoOp ==
    [][ParentMissing(state, last') => state' = state]_vars

C4_Witness ==
    /\ last.type = "ADD_FILE"
    /\ FindWorkspace(state, last.workspaceId) # NotFound
    /\ FindWorkspace(state, last.workspaceId).folders # <<>>
    /\ FindFolder(state, last.workspaceId, last.folderId) = NotFound
    /\ AllFileIds(state) = {}

IsNonEmptyString(v) == v \notin {NULL, UNDEFINED} /\ v # ""

IsSubSeq(q, r) ==
    \E pick \in SUBSET (1..Len(r)) :
        q = SelectSeq([i \in 1..Len(r) |-> IF i \in pick THEN r[i] ELSE NotFound],
                      LAMBDA n : n # NotFound)

\* C5: the non-trashed listing of a folder holds exactly its files whose trash
\* marker is not a non-empty string, in their order.
C5_ListingExcludesTrashed ==
    \A i \in 1..Len(Workspaces) : \A j \in 1..Len(Workspaces[i].folders) :
        LET w == Workspaces[i].id
            fo == Workspaces[i].folders[j]
            listing == NonTrashedFiles(state, w, fo.id)
        IN  FindFolder(state, w, fo.id) = fo =>
              /\ listing # UNDEFINED
              /\ IsSubSeq(listing, fo.files)
              /\ \A k \in 1..Len(fo.files) :
                    (\E m \in 1..Len(listing) : listing[m] = fo.files[k])
                       <=> ~IsNonEmptyString(fo.files[k].inTrash)

C5_Witness ==
    \E i \in 1..Len(Workspaces) : \E j \in 1..Len(Workspaces[i].folders) :
        LET fo == Workspaces[i].folders[j]
        IN  /\ Len(fo.files) = 2
            /\ fo.files[1].inTrash = DeletedBy(Email)
            /\ fo.files[2].inTrash = NULL
            /\ NonTrashedFiles(state, Workspaces[i].id, fo.id) = <<fo.files[2]>>

Occurrences(q, id) == Cardinality({m \in 1..Len(q) : q[m].id = id})

\* C8: ADD_FOLDER(w, folder) into an existing workspace followed by
\* ADD_FILE(w, folder.id, file) with a file that is not trashed makes the
\* non-trashed listing of (w, folder.id) hold that file exactly once.
C8_AddedFileIsListedOnce ==
    [][(/\ last.type = "ADD_FOLDER"
        /\ FindWorkspace(state, last.workspaceId) # NotFound
        /\ last'.type = "ADD_FILE"
        /\ last'.workspaceId = last.workspaceId
        /\ last'.folderId = last.folder.id
        /\ ~IsNonEmptyString(last'.file.inTrash))
       => LET listing == NonTrashedFiles(state', last'.workspaceId, last'.folderId)
          IN  /\ listing # UNDEFINED
              /\ Occurrences(listing, last'.file.id) = 1
              /\ \E m \in 1..Len(listing) : listing[m] = last'.file
    ]_vars

C8_Witness ==
    /\ last.type = "ADD_FILE"
    /\ before = <<last.workspaceId, last.folderId>>
    /\ last.file.inTrash = NULL
    /\ AllFolderIds(state) = {last.folderId}
    /\ <<last.folderId, last.workspaceId>> \in issued
    /\ NonTrashedFiles(state, last.workspaceId, last.folderId) = <<last.file>>
    /\ Len(Workspaces) = 1

(***************************************************************************)
(* Composite keys of file nodes                                            *)
(***************************************************************************)
MaxIdLen == 2

(* characters of a canonical identifier (hexadecimal digits and the hyphen) *)
IdAlphabet == {"f", "d", "e", "0", "-"}

SeparatorMutant == <<"-">>

Separator == <<"f", "o", "l", "d", "e", "r">>

(* `${id}folder${file.id}` *)
customFileId(id, fileId) == id \o Separator \o fileId

Occurs(str, sep, i) ==
    /\ i + Len(sep) - 1 <= Len(str)
    /\ SubSeq(str, i, i + Len(sep) - 1) = sep

RECURSIVE Split(_, _)
(* String.prototype.split with a non-empty separator *)
Split(str, sep) ==
    IF \E i \in 1..Len(str) : Occurs(str, sep, i)
    THEN LET i == CHOOSE n \in 1..Len(str) :
                    Occurs(str, sep, n) /\ \A m \in 1..(n - 1) : ~Occurs(str, sep, m)
         IN  <<SubSeq(str, 1, i - 1)>> \o Split(SubSeq(str, i + Len(sep), Len(str)), sep)
    ELSE <<str>>

(* id.split('folder') *)
SplitId(id) == Split(id, Separator)

IdsOfLen(n) == [1..n -> IdAlphabet]

KeyIds == UNION {IdsOfLen(n) : n \in 1..MaxIdLen}

InitKey ==
    /\ InitStore
    /\ InitUIIdle
    /\ InitServerIdle
    /\ da = DaIdle
    /\ \E f \in KeyIds, g \in KeyIds :
          keyTest = [pc |-> "ids", folderId |-> f, fileId |-> g]

(* a folder renders one of its files under the composite key *)
RenderFileNode ==
    /\ keyTest.pc = "ids"
    /\ keyTest' = [pc |-> "rendered", folderId |-> keyTest.folderId,
                   fileId |-> keyTest.fileId,
                   key |-> customFileId(keyTest.folderId, keyTest.fileId)]
    /\ UNCHANGED <<storeVars, uiVars, da, serverVars>>

(* a handler of the file node parses its key *)
ParseFileKey ==
    /\ keyTest.pc = "rendered"
    /\ keyTest' = [pc |-> "parsed", folderId |-> keyTest.folderId,
                   fileId |-> keyTest.fileId, key |-> keyTest.key,
                   parts |-> SplitId(keyTest.key)]
    /\ UNCHANGED <<storeVars, uiVars, da, serverVars>>

(* a handler of the folder node parses its id *)
ParseFolderKey ==
    /\ keyTest.pc = "ids"
    /\ keyTest' = [pc |-> "plain", folderId |-> keyTest.folderId,
                   fileId |-> keyTest.fileId, key |-> keyTest.folderId,
                   parts |-> SplitId(keyTest.folderId)]
    /\ UNCHANGED <<storeVars, uiVars, da, serverVars>>

NextKey == RenderFileNode \/ ParseFileKey \/ ParseFolderKey

SpecKey == InitKey /\ [][NextKey]_vars

\* C7: the key built from (f, g) splits on "folder" into exactly (f, g), and a
\* plain folder id splits into the single component f.
C7_KeyRoundTrip ==
    /\ keyTest.pc = "parsed" => keyTest.parts = <<keyTest.folderId, keyTest.fileId>>
    /\ keyTest.pc = "plain" => keyTest.parts = <<keyTest.folderId>>

C7_Witness ==
    /\ keyTest.pc = "parsed"
    /\ keyTest.folderId = <<"f", "-">>
    /\ keyTest.fileId = <<"d", "e">>
    /\ Len(keyTest.key) = 10
    /\ keyTest.parts = <<<<"f", "-">>, <<"d", "e">>>>

(***************************************************************************)
(* Data-access functions                                                   *)
(***************************************************************************)
HexDigits ==
    {"0", "1", "2", "3", "4", "5", "6", "7", "8", "9", "a", "b", "c", "d", "e", "f"}

(* validate() of the uuid package, for identifiers scaled down to two digits *)
validate(id) == Len(id) = Len(W1) /\ \A i \in 1..Len(id) : id[i] \in HexDigits

(* !id for a string id *)
IsEmpty(id) == Len(id) = 0

Malformed == <<"z", "z">>
TooShort == <<"a">>
EmptyId == <<>>

ArgIds == {W1, F1, G1, Malformed, TooShort, EmptyId}

Result(data, error) == [data |-> data, error |-> error]

(* what the caller gets from a bare return: undefined *)
Void == [undefined |-> TRUE]

(* what a function does up to its first await: it returns, or issues one
   persistence operation *)
Return(value) == [returns |-> value]

Issue(kind, table, column, id) ==
    [issues |-> [kind |-> kind, table |-> table, column |-> column, id |-> id]]

getUserSubscriptionStatus(userId) == Issue("select", "subscriptions", "userId", userId)

getFolders(workspaceId) ==
    IF ~validate(workspaceId) THEN Return(Result(NULL, "Invalid workspace ID"))
    ELSE Issue("select", "folders", "workspaceId", workspaceId)

getFiles(folderId) ==
    IF ~validate(folderId) THEN Return(Result(NULL, "Error"))
    ELSE Issue("select", "files", "folderId", folderId)

getWorkspaceDetails(workspaceId) ==
    IF ~validate(workspaceId) THEN Return(Result("[]", "Error"))
    ELSE Issue("select", "workspaces", "id", workspaceId)

(* the block after if (!isValid) holds two labelled expression statements and
   no return: control falls through to the query *)
getFolderDetails(folderId) == Issue("select", "folders", "id", folderId)

getFileDetails(fileId) == Issue("select", "files", "id", fileId)

updateFile(fileId) == Issue("update", "files", "id", fileId)

updateFolder(folderId) == Issue("update", "folders", "id", folderId)

updateWorkspace(workspaceId) ==
    IF IsEmpty(workspaceId) THEN Return(Void)
    ELSE Issue("update", "workspaces", "id", workspaceId)

createWorkspace(workspace) == Issue("insert", "workspaces", "id", workspace.id)

createFolder(folder) == Issue("insert", "folders", "id", folder.id)

createFile(file) == Issue("insert", "files", "id", file.id)

deleteWorkspace(workspaceId) ==
    IF IsEmpty(workspaceId) THEN Return(Void)
    ELSE Issue("delete", "workspaces", "id", workspaceId)

deleteFile(fileId) ==
    IF IsEmpty(fileId) THEN Return(Void)
    ELSE Issue("delete", "files", "id", fileId)

deleteFolder(folderId) ==
    IF IsEmpty(folderId) THEN Return(Void)
    ELSE Issue("delete", "files", "id", folderId)

ReadFns == {"getFolders", "getFiles", "getWorkspaceDetails", "getFolderDetails",
            "getFileDetails"}

UpdateFns == {"updateFile", "updateFolder", "updateWorkspace"}

DeleteFns == {"deleteWorkspace", "deleteFile", "deleteFolder"}

MutationFns == UpdateFns \cup DeleteFns

CreateFns == {"createWorkspace", "createFolder", "createFile"}

DetailsFns == {"getWorkspaceDetails", "getFolderDetails", "getFileDetails"}

SubscriptionFns == {"getUserSubscriptionStatus"}

(* the functions written to return { data, error } *)
ResultFns == SubscriptionFns \cup ReadFns \cup CreateFns \cup UpdateFns

OnSuccessMutant(fn) ==
    CASE fn \in ReadFns \cup SubscriptionFns -> Return(Result("rows", NULL))
      [] fn \in UpdateFns \cup CreateFns -> Return(Result("rows", NULL))
      [] fn \in DeleteFns -> Return(Void)

(* the value a function returns once its persistence operation succeeded
   and gave rows where it gives any *)
OnSuccess(fn) ==
    CASE fn \in ReadFns \cup SubscriptionFns -> Return(Result("rows", NULL))
      [] fn \in UpdateFns \cup CreateFns -> Return(Result(NULL, NULL))
      [] fn \in DeleteFns -> Return(Void)

(* ... once it succeeded and found no row: an empty list, or no subscription *)
OnSuccessEmpty(fn) ==
    CASE fn \in ReadFns -> Return(Result("[]", NULL))
      [] fn \in SubscriptionFns -> Return(Result(NULL, NULL))
      [] OTHER -> OnSuccess(fn)

(* ... and once it threw: the catch block, or none in the delete functions *)
OnFailure(fn) ==
    CASE fn \in {"getFolders", "getFiles"} -> Return(Result(NULL, "Error"))
      [] fn \in SubscriptionFns -> Return(Result(NULL, "Error thrown"))
      [] fn \in DetailsFns -> Return(Result("[]", "Error"))
      [] fn \in UpdateFns \cup CreateFns -> Return(Result(NULL, "Error"))
      [] fn \in DeleteFns -> [throws |-> TRUE]

Call(fn, id, entry) ==
    /\ da.pc = "idle"
    /\ da' = IF "returns" \in DOMAIN entry
             THEN [pc |-> "returned", fn |-> fn, id |-> id, ops |-> <<>>,
                   result |-> entry.returns, path |-> "rejected"]
             ELSE [pc |-> "awaiting", fn |-> fn, id |-> id, ops |-> <<entry.issues>>]
    /\ UNCHANGED <<storeVars, uiVars, keyTest, serverVars>>

CallGetFolders == \E id \in ArgIds : Call("getFolders", id, getFolders(id))
CallGetFiles == \E id \in ArgIds : Call("getFiles", id, getFiles(id))
CallGetWorkspaceDetails ==
    \E id \in ArgIds : Call("getWorkspaceDetails", id, getWorkspaceDetails(id))
CallGetFolderDetails == \E id \in ArgIds : Call("getFolderDetails", id, getFolderDetails(id))
CallGetFileDetails == \E id \in ArgIds : Call("getFileDetails", id, getFileDetails(id))
CallUpdateFile == \E id \in ArgIds : Call("updateFile", id, updateFile(id))
CallUpdateFolder == \E id \in ArgIds : Call("updateFolder", id, updateFolder(id))
CallUpdateWorkspace == \E id \in ArgIds : Call("updateWorkspace", id, updateWorkspace(id))
CallDeleteWorkspace == \E id \in ArgIds : Call("deleteWorkspace", id, deleteWorkspace(id))
CallDeleteFile == \E id \in ArgIds : Call("deleteFile", id, deleteFile(id))
CallDeleteFolder == \E id \in ArgIds : Call("deleteFolder", id, deleteFolder(id))
CallGetUserSubscriptionStatus ==
    \E id \in ArgIds : Call("getUserSubscriptionStatus", id, getUserSubscriptionStatus(id))
CallCreateWorkspace ==
    \E id \in ArgIds : Call("createWorkspace", id, createWorkspace(NewWorkspace(id)))
CallCreateFolder ==
    \E id \in ArgIds : Call("createFolder", id, createFolder(NewFolder(W1, id)))
CallCreateFile ==
    \E id \in ArgIds : Call("createFile", id, createFile(NewFile(W1, F1, id)))

Settle(outcome, path) ==
    /\ da.pc = "awaiting"
    /\ da' = IF "throws" \in DOMAIN outcome
             THEN [pc |-> "threw", fn |-> da.fn, id |-> da.id, ops |-> da.ops]
             ELSE [pc |-> "returned", fn |-> da.fn, id |-> da.id, ops |-> da.ops,
                   result |-> outcome.returns, path |-> path]
    /\ UNCHANGED <<storeVars, uiVars, keyTest, serverVars>>

PersistenceSucceeds ==
    \E found \in BOOLEAN :
        Settle(IF found THEN OnSuccess(da.fn) ELSE OnSuccessEmpty(da.fn), "succeeded")

PersistenceFails == Settle(OnFailure(da.fn), "failed")

(* the caller takes the result; the next call can start *)
Resume ==
    /\ da.pc \in {"returned", "threw"}
    /\ da' = DaIdle
    /\ UNCHANGED <<storeVars, uiVars, keyTest, serverVars>>

NextDA ==
    \/ CallGetFolders
    \/ CallGetFiles
    \/ CallGetWorkspaceDetails
    \/ CallGetFolderDetails
    \/ CallGetFileDetails
    \/ CallUpdateFile
    \/ CallUpdateFolder
    \/ CallUpdateWorkspace
    \/ CallDeleteWorkspace
    \/ CallDeleteFile
    \/ CallDeleteFolder
    \/ CallGetUserSubscriptionStatus
    \/ CallCreateWorkspace
    \/ CallCreateFolder
    \/ CallCreateFile
    \/ PersistenceSucceeds
    \/ PersistenceFails
    \/ Resume

SpecDA == Init /\ [][NextDA]_vars

HasError(result) == result # Void /\ result.error # NULL

\* C9: an id-addressed read function called with an id that is not canonical
\* returns an error result and issues no persistence operation.
C9_ReadsRejectMalformedIds ==
    (da.pc # "idle" /\ da.fn \in ReadFns /\ ~validate(da.id)) =>
        /\ da.ops = <<>>
        /\ da.pc = "returned"
        /\ HasError(da.result)

\* C10: every mutation operation addressed by id rejects an id that is not
\* canonical before touching persistence: no update or delete is issued for it.
C10_MutationsRejectMalformedIds ==
    (da.pc # "idle" /\ da.fn \in MutationFns /\ ~validate(da.id)) => da.ops = <<>>

GuardedFns == {"updateWorkspace", "deleteWorkspace", "deleteFile", "deleteFolder"}

\* What the mutation functions do check: updateWorkspace and the three delete
\* functions return without touching persistence for an empty id and only
\* then; updateFile and updateFolder never do; in every other case, a malformed
\* id included, exactly one update or delete carrying the id as given is issued.
MutationsRejectOnlyEmptyIds ==
    (da.pc # "idle" /\ da.fn \in MutationFns) =>
        IF da.fn \in GuardedFns /\ IsEmpty(da.id)
        THEN da.ops = <<>> /\ da.pc = "returned" /\ da.result = Void
        ELSE /\ Len(da.ops) = 1
             /\ da.ops[1].id = da.id
             /\ da.ops[1].kind = IF da.fn \in UpdateFns THEN "update" ELSE "delete"

(* a data field that carries something: neither null nor the empty list *)
Populated(data) == data \notin {NULL, "[]"}

\* C11: every data-access function returns a result { data, error } in which
\* exactly one of data and error is populated, on the success path, on the
\* validation-failure path and on the persistence-failure path.
C11_ExactlyOnePopulated ==
    da.pc = "returned" =>
        /\ da.result # Void
        /\ (da.result.data # NULL) # (da.result.error # NULL)

\* C11 amended: a function written to return { data, error } (subscription,
\* read, create and update functions) returns undefined only from
\* updateWorkspace with an empty id; in every other return the error is set
\* exactly on the validation-failure and persistence-failure paths, data is
\* never populated next to an error (the three *Details functions pair the
\* error with an empty list, the others with null), and data is null on every
\* path of a create or update function, so that their success result is
\* { data: null, error: null }.
C11_ErrorSetExactlyOnFailure ==
    (da.pc = "returned" /\ da.fn \in ResultFns) =>
        IF da.fn = "updateWorkspace" /\ IsEmpty(da.id)
        THEN da.result = Void
        ELSE /\ da.result # Void
             /\ (da.result.error # NULL) <=> (da.path \in {"rejected", "failed"})
             /\ da.result.error # NULL => ~Populated(da.result.data)
             /\ (da.result.error # NULL /\ da.result.data # NULL) => da.fn \in DetailsFns
             /\ da.fn \in CreateFns \cup UpdateFns => da.result.data = NULL

C11_Witness ==
    /\ da.pc = "returned"
    /\ da.fn = "createWorkspace"
    /\ da.path = "succeeded"
    /\ da.ops = <<[kind |-> "insert", table |-> "workspaces", column |-> "id", id |-> W1]>>
    /\ da.result = Result(NULL, NULL)

\* C12: a failure of the underlying persistence operation never escapes a
\* data-access function as an exception: it is returned to the caller as
\* { data: null, error: 'Error' }.
C12_FailureIsReturnedNotThrown ==
    /\ da.pc # "threw"
    /\ (da.pc = "returned" /\ da.path = "failed") => da.result = Result(NULL, "Error")

(***************************************************************************)
(* The sidebar: rendered nodes, their handlers and the persistence calls   *)
(* the handlers await                                                      *)
(***************************************************************************)
MaxOps == 3
MaxCalls == 2

U1 == <<"b", "1">>
U2 == <<"b", "2">>

(* the users table: it does not change here *)
UserIds == {U1, U2}

WorkspaceRow(w, u) ==
    [k \in (DOMAIN NewWorkspace(w) \ {"folders"}) \cup {"workspaceOwner"} |->
        IF k = "workspaceOwner" THEN u ELSE NewWorkspace(w)[k]]

FolderRow(w, f) == [k \in DOMAIN NewFolder(w, f) \ {"files"} |-> NewFolder(w, f)[k]]

(* the folder nodes the sidebar shows: the folders of the current workspace
   that are not in the trash *)
FolderNodes ==
    LET ws == FindWorkspace(state, state.workspaceId)
    IN  IF ws = NotFound THEN {}
        ELSE {fo.id : fo \in {n \in Range(ws.folders) : Not(n.inTrash)}}

(* the file nodes a folder node with this id renders under it *)
FileNodes(id) ==
    LET files == NonTrashedFiles(state, state.workspaceId, id)
    IN  IF files = UNDEFINED THEN {}
        ELSE {customFileId(id, file.id) : file \in Range(files)}

Nodes ==
    {[id |-> f, listType |-> "folder"] : f \in FolderNodes}
        \cup {[id |-> k, listType |-> "file"] : k \in UNION {FileNodes(f) : f \in FolderNodes}}

(* a node that is no longer rendered is unmounted and its isEditing is lost *)
Mounted(editing, s) ==
    LET ws == FindWorkspace(s, s.workspaceId)
        folders == IF ws = NotFound THEN {}
                   ELSE {fo \in Range(ws.folders) : Not(fo.inTrash)}
    IN  {id \in editing :
            \/ \E fo \in folders : id = fo.id
            \/ \E fo \in folders : \E file \in Range(fo.files) :
                    Not(file.inTrash) /\ id = customFileId(fo.id, file.id)}

(* pathId[1] of JavaScript: undefined past the end *)
At(parts, n) == IF n <= Len(parts) THEN parts[n] ELSE NoId

moveToTrashActionMutant(listType, id, workspaceId, email) ==
    LET pathId == SplitId(id)
    IN  IF listType = "folder"
        THEN [type |-> "DELETE_FOLDER", workspaceId |-> workspaceId,
              folderId |-> At(pathId, 1)]
        ELSE [type |-> "DELETE_FILE", workspaceId |-> workspaceId,
              folderId |-> At(pathId, 1), fileId |-> At(pathId, 2)]

moveToTrashAction(listType, id, workspaceId, email) ==
    LET pathId == SplitId(id)
    IN  IF listType = "folder"
        THEN [type |-> "UPDATE_FOLDER", workspaceId |-> workspaceId,
              folderId |-> At(pathId, 1), folder |-> [inTrash |-> DeletedBy(email)]]
        ELSE [type |-> "UPDATE_FILE", workspaceId |-> workspaceId,
              folderId |-> At(pathId, 1), fileId |-> At(pathId, 2),
              file |-> [inTrash |-> DeletedBy(email)]]

moveToTrashCall(listType, id, email) ==
    LET pathId == SplitId(id)
    IN  IF listType = "folder"
        THEN [fn |-> "updateFolder", id |-> At(pathId, 1),
              payload |-> [inTrash |-> DeletedBy(email)]]
        ELSE [fn |-> "updateFile", id |-> At(pathId, 2),
              payload |-> [inTrash |-> DeletedBy(email)]]

(* a handler runs up to its await: it counts as one operation *)
Run(name, node, acted) ==
    /\ steps < MaxOps
    /\ steps' = steps + 1
    /\ handler' = [name |-> name, id |-> node.id, listType |-> node.listType,
                   acted |-> acted]
    /\ UNCHANGED <<keyTest, serverVars, da, userEmail, db, toast>>

Await(name, node, call) ==
    calls' = calls \cup {[n |-> steps, handler |-> name, listType |-> node.listType,
                          fn |-> call.fn, id |-> call.id, payload |-> call.payload]}

MoveToTrash ==
    \E node \in Nodes :
        IF Not(userEmail) \/ IsEmpty(state.workspaceId)
        THEN /\ Run("moveToTrash", node, FALSE)
             /\ UNCHANGED <<state, last, before, issued, calls, isEditing>>
        ELSE /\ Cardinality(calls) < MaxCalls
             /\ Run("moveToTrash", node, TRUE)
             /\ dispatch(moveToTrashAction(node.listType, node.id, state.workspaceId,
                                           userEmail))
             /\ Await("moveToTrash", node,
                      moveToTrashCall(node.listType, node.id, userEmail))
             /\ isEditing' = Mounted(isEditing, state')
             /\ UNCHANGED issued

addNewFileActionMutant(id, workspaceId, fileId) ==
    [type |-> "ADD_FILE", workspaceId |-> workspaceId, folderId |-> id,
     file |-> NewFile(NoId, id, fileId)]

addNewFileAction(id, workspaceId, fileId) ==
    [type |-> "ADD_FILE", workspaceId |-> workspaceId, folderId |-> id,
     file |-> NewFile(workspaceId, id, fileId)]

(* the plus icon is rendered on folder nodes only *)
AddNewFile ==
    \E node \in {n \in Nodes : n.listType = "folder"} :
        IF IsEmpty(state.workspaceId)
        THEN /\ Run("addNewFile", node, FALSE)
             /\ UNCHANGED <<state, last, before, issued, calls, isEditing>>
        ELSE \E fileId \in v4(FileIds) :
                /\ Cardinality(calls) < MaxCalls
                /\ Run("addNewFile", node, TRUE)
                /\ dispatch(addNewFileAction(node.id, state.workspaceId, fileId))
                /\ Await("addNewFile", node,
                         [fn |-> "createFile", id |-> fileId,
                          payload |-> NewFile(state.workspaceId, node.id, fileId)])
                /\ issued' = issued \cup {<<fileId, node.id>>}
                /\ UNCHANGED isEditing

Emojis == {"E1", "E2"}

onChangeEmojiActionMutant(id, workspaceId, selectedEmoji) ==
    [type |-> "UPDATE_FOLDER", workspaceId |-> workspaceId, folderId |-> NoId,
     folder |-> [iconId |-> selectedEmoji]]

onChangeEmojiAction(id, workspaceId, selectedEmoji) ==
    [type |-> "UPDATE_FOLDER", workspaceId |-> workspaceId, folderId |-> id,
     folder |-> [iconId |-> selectedEmoji]]

(* the emoji picker is rendered on every node; on a file node the handler
   does nothing *)
OnChangeEmoji ==
    \E node \in Nodes, selectedEmoji \in Emojis :
        IF IsEmpty(state.workspaceId) \/ node.listType # "folder"
        THEN /\ Run("onChangeEmoji", node, FALSE)
             /\ UNCHANGED <<state, last, before, issued, calls, isEditing>>
        ELSE /\ Cardinality(calls) < MaxCalls
             /\ Run("onChangeEmoji", node, TRUE)
             /\ dispatch(onChangeEmojiAction(node.id, state.workspaceId, selectedEmoji))
             /\ Await("onChangeEmoji", node,
                      [fn |-> "updateFolder", id |-> node.id,
                       payload |-> [iconId |-> selectedEmoji]])
             /\ UNCHANGED <<issued, isEditing>>

(* the values typed into a title input *)
Titles == {"T", ""}

(* the title prop of a node: the title of the folder or file it is rendered from *)
TitleProp(s, node) ==
    LET fId == SplitId(node.id)
    IN  IF node.listType = "folder"
        THEN FindFolder(s, s.workspaceId, node.id).title
        ELSE FindFile(s, s.workspaceId, At(fId, 1), At(fId, 2)).title

folderTitleMutant(s, listType, workspaceId, id, title) == "Untitled"

folderTitle(s, listType, workspaceId, id, title) ==
    IF listType # "folder" THEN UNDEFINED
    ELSE LET stateFolder == FindFolder(s, workspaceId, id)
             stateFolderTitle == IF stateFolder = NotFound THEN UNDEFINED
                                 ELSE stateFolder.title
         IN  IF title = stateFolderTitle \/ Not(stateFolderTitle) THEN title
             ELSE stateFolderTitle

fileTitleMutant(s, listType, workspaceId, id, title) == title \o "!"

fileTitle(s, listType, workspaceId, id, title) ==
    IF listType # "file" THEN UNDEFINED
    ELSE LET fileAndFolderId == SplitId(id)
             stateFile == FindFile(s, workspaceId, At(fileAndFolderId, 1),
                                   At(fileAndFolderId, 2))
             stateFileTitle == IF stateFile = NotFound THEN UNDEFINED ELSE stateFile.title
         IN  IF title = stateFileTitle \/ Not(stateFileTitle) THEN title
             ELSE stateFileTitle

HandleDoubleClick ==
    \E node \in Nodes :
        /\ node.id \notin isEditing
        /\ Run("handleDoubleClick", node, TRUE)
        /\ isEditing' = isEditing \cup {node.id}
        /\ UNCHANGED <<state, last, before, issued, calls>>

folderTitleChangeAction(id, workspaceId, value) ==
    [type |-> "UPDATE_FOLDER", workspaceId |-> workspaceId,
     folderId |-> At(SplitId(id), 1), folder |-> [title |-> value]]

fileTitleChangeAction(id, workspaceId, folderId, value) ==
    [type |-> "UPDATE_FILE", workspaceId |-> workspaceId, folderId |-> folderId,
     fileId |-> At(SplitId(id), 2), file |-> [title |-> value]]

(* onChange of the title input, which is read-only unless the node is in
   editing mode: folderTitleChange on a folder node, fileTitleChange on a
   file node *)
TitleChange ==
    \E node \in Nodes, value \in Titles :
        LET fid == SplitId(node.id)
            dispatches ==
                IF node.listType = "folder"
                THEN ~IsEmpty(state.workspaceId) /\ Len(fid) = 1
                ELSE /\ ~IsEmpty(state.workspaceId)
                     /\ ~IsEmpty(state.folderId)
                     /\ Len(fid) = 2
                     /\ ~IsEmpty(fid[2])
        IN  /\ node.id \in isEditing
            /\ Run("titleChange", node, dispatches)
            /\ IF dispatches
               THEN dispatch(IF node.listType = "folder"
                             THEN folderTitleChangeAction(node.id, state.workspaceId, value)
                             ELSE fileTitleChangeAction(node.id, state.workspaceId,
                                                        state.folderId, value))
               ELSE UNCHANGED <<state, last, before>>
            /\ UNCHANGED <<issued, calls, isEditing>>

NoCall == [fn |-> "none"]

handleBlurCallMutant(s, node) ==
    IF node.listType = "folder"
    THEN [fn |-> "updateFolder", id |-> node.id, payload |-> [title |-> "Untitled"]]
    ELSE [fn |-> "updateFile", id |-> At(SplitId(node.id), 2),
          payload |-> [title |-> "Untitled"]]

(* the update handleBlur awaits, if it gets that far *)
handleBlurCall(s, node) ==
    LET fId == SplitId(node.id)
        title == TitleProp(s, node)
    IN  IF Len(fId) = 1
        THEN IF Not(folderTitle(s, node.listType, s.workspaceId, node.id, title))
             THEN NoCall
             ELSE [fn |-> "updateFolder", id |-> fId[1], payload |-> [title |-> title]]
        ELSE IF Len(fId) = 2 /\ ~IsEmpty(fId[2])
        THEN IF Not(fileTitle(s, node.listType, s.workspaceId, node.id, title))
             THEN NoCall
             ELSE [fn |-> "updateFile", id |-> fId[2],
                   payload |-> [title |-> fileTitle(s, node.listType, s.workspaceId,
                                                    node.id, title)]]
        ELSE NoCall

HandleBlurMutant ==
    \E node \in Nodes :
        /\ Cardinality(calls) < MaxCalls
        /\ Run("handleBlur", node, TRUE)
        /\ isEditing' = isEditing \ {node.id}
        /\ Await("handleBlur", node, handleBlurCallMutant(state, node))
        /\ UNCHANGED <<state, last, before, issued>>

HandleBlur ==
    \E node \in Nodes :
        IF node.id \notin isEditing
        THEN /\ Run("handleBlur", node, FALSE)
             /\ UNCHANGED <<state, last, before, issued, calls, isEditing>>
        ELSE /\ Run("handleBlur", node, TRUE)
             /\ isEditing' = isEditing \ {node.id}
             /\ IF handleBlurCall(state, node) = NoCall
                THEN UNCHANGED calls
                ELSE /\ Cardinality(calls) < MaxCalls
                     /\ Await("handleBlur", node, handleBlurCall(state, node))
             /\ UNCHANGED <<state, last, before, issued>>

(* the workspaces the server hands to WorkspaceDropdown *)
WorkspaceProps ==
    [i \in 1..Len(WsIdSeq) |->
        [k \in DOMAIN NewWorkspace(WsIdSeq[i]) \ {"folders"} |-> NewWorkspace(WsIdSeq[i])[k]]]

SetWorkspacesEffectMutant ==
    /\ last.type # "SET_WORKSPACES"
    /\ dispatch([type |-> "SET_WORKSPACES",
                 workspaces |-> [i \in 1..Len(WorkspaceProps) |->
                     [k \in DOMAIN WorkspaceProps[i] \cup {"folders"} |->
                         IF k = "folders" THEN <<>> ELSE WorkspaceProps[i][k]]]])
    /\ UNCHANGED <<issued, steps, keyTest, serverVars, da, uiVars>>

(* useEffect of WorkspaceDropdown *)
SetWorkspacesEffect ==
    /\ Len(state.workspaces) = 0
    /\ dispatch([type |-> "SET_WORKSPACES",
                 workspaces |-> [i \in 1..Len(WorkspaceProps) |->
                     [k \in DOMAIN WorkspaceProps[i] \cup {"folders"} |->
                         IF k = "folders" THEN <<>> ELSE WorkspaceProps[i][k]]]])
    /\ UNCHANGED <<issued, steps, keyTest, serverVars, da, uiVars>>

(* the route changes: the navigation context follows it *)
Navigate ==
    \E w \in WsIds, f \in FolderIds \cup {NoId} :
        /\ <<w, f>> # <<state.workspaceId, state.folderId>>
        /\ state' = Reducer(Reducer(state, [type |-> "SET_CURRENT_WORKSPACE",
                                            workspaceId |-> w]),
                            [type |-> "SET_CURRENT_FOLDER", folderId |-> f])
        /\ last' = [type |-> "SET_CURRENT_FOLDER", folderId |-> f]
        /\ before' = <<>>
        /\ isEditing' = Mounted(isEditing, state')
        /\ UNCHANGED <<issued, steps, keyTest, serverVars, da, userEmail, db, calls, toast,
                       handler>>

RowsWhere(table, column, id) == {r \in table : r[column] = id}

RowSeq(order, rows) ==
    [i \in 1..Len(SortedSeq(order, {r.id : r \in rows})) |->
        CHOOSE r \in rows : r.id = SortedSeq(order, {q.id : q \in rows})[i]]

(* the folder list of the current workspace is read from persistence *)
LoadFolders ==
    LET ws == FindWorkspace(state, state.workspaceId)
        rows == RowsWhere(db.folders, "workspaceId", state.workspaceId)
    IN  /\ ws # NotFound
        /\ ws.folders = <<>>
        /\ rows # {}
        /\ dispatch([type |-> "SET_FOLDERS", workspaceId |-> state.workspaceId,
                     folders |-> RowSeq(FolderIdSeq, rows)])
        /\ UNCHANGED <<issued, steps, keyTest, serverVars, da, uiVars>>

(* the file list of the current folder is read from persistence *)
LoadFiles ==
    LET fo == FindFolder(state, state.workspaceId, state.folderId)
        rows == RowsWhere(db.files, "folderId", state.folderId)
    IN  /\ fo # NotFound
        /\ fo.files = <<>>
        /\ rows # {}
        /\ dispatch([type |-> "SET_FILES", workspaceId |-> state.workspaceId,
                     folderId |-> state.folderId, files |-> RowSeq(FileIdSeq, rows)])
        /\ UNCHANGED <<issued, steps, keyTest, serverVars, da, uiVars>>

(* the persistence operation a call of a handler issues *)
Entry(c) ==
    CASE c.fn = "updateFolder" -> updateFolder(c.id)
      [] c.fn = "updateFile" -> updateFile(c.id)
      [] c.fn = "createFile" -> createFile(c.payload)

TableOf(d, name) ==
    CASE name = "workspaces" -> d.workspaces
      [] name = "folders" -> d.folders
      [] name = "files" -> d.files
      [] name = "collaborators" -> d.collaborators

WithTable(d, name, rows) ==
    CASE name = "workspaces" -> [d EXCEPT !.workspaces = rows]
      [] name = "folders" -> [d EXCEPT !.folders = rows]
      [] name = "files" -> [d EXCEPT !.files = rows]
      [] name = "collaborators" -> [d EXCEPT !.collaborators = rows]

(* the references of a row resolve: folders.workspaceId, files.folderId,
   files.workspaceId, collaborators.workspaceId and collaborators.userId *)
References(d, table, row) ==
    CASE table = "workspaces" -> TRUE
      [] table = "folders" -> \E w \in d.workspaces : w.id = row.workspaceId
      [] table = "files" ->
            /\ \E fo \in d.folders : fo.id = row.folderId
            /\ \E w \in d.workspaces : w.id = row.workspaceId
      [] table = "collaborators" ->
            /\ \E w \in d.workspaces : w.id = row.workspaceId
            /\ row.userId \in UserIds

(* an insert violates no constraint: the key is new and the rows it refers to exist *)
Insertable(d, op, row) ==
    /\ \A r \in TableOf(d, op.table) : r.id # row.id
    /\ References(d, op.table, row)

CascadeMutant(d) ==
    [d EXCEPT !.folders = {r \in @ : \E w \in d.workspaces : w.id = r.workspaceId}]

(* references(..., { onDelete: 'cascade' }): rows whose parent row is gone go with it *)
Cascade(d) ==
    LET folders == {r \in d.folders : \E w \in d.workspaces : w.id = r.workspaceId}
    IN  [workspaces |-> d.workspaces,
         folders |-> folders,
         files |-> {r \in d.files :
                        /\ \E fo \in folders : fo.id = r.folderId
                        /\ \E w \in d.workspaces : w.id = r.workspaceId},
         collaborators |-> {r \in d.collaborators :
                                \E w \in d.workspaces : w.id = r.workspaceId}]

ApplyOp(d, op, payload) ==
    LET table == TableOf(d, op.table)
    IN  CASE op.kind = "update" ->
                WithTable(d, op.table,
                    {IF r[op.column] = op.id THEN Merge(r, payload) ELSE r : r \in table})
          [] op.kind = "insert" -> WithTable(d, op.table, table \cup {payload})
          [] op.kind = "delete" ->
                Cascade(WithTable(d, op.table, {r \in table : r[op.column] # op.id}))
          [] OTHER -> d

Toast(title, description) == [title |-> title, description |-> description]

(* the notification a handler shows when its call came back *)
ToastAfter(c, result) ==
    CASE c.handler = "moveToTrash" ->
            IF result.error # NULL THEN Toast("Error", "Could not move the folder to trash")
            ELSE Toast("Success", "Moved folder to trash")
      [] c.handler = "addNewFile" ->
            IF result.error # NULL THEN Toast("Error", "Could not create a file")
            ELSE Toast("Success", "File created.")
      [] c.handler = "onChangeEmoji" ->
            IF result.error # NULL
            THEN Toast("Error", "Could not update the emoji for this folder")
            ELSE Toast("Success", "Updated emoji for the folder")
      [] c.handler = "handleBlur" /\ c.fn = "updateFolder" ->
            IF result.error # NULL
            THEN Toast("Error", "Could not update the title for this folder")
            ELSE Toast("Success", "Folder title changed.")
      [] c.handler = "handleBlur" /\ c.fn = "updateFile" ->
            IF result.error # NULL
            THEN Toast("Error", "Could not update the title for this file")
            ELSE Toast("Success", "File title changed.")

(* the data-access function of a call has returned to its handler *)
Returned(c, result, path) ==
    [pc |-> "returned", fn |-> c.fn, result |-> result, path |-> path]

CallSucceedsMutant ==
    \E c \in calls :
        LET op == Entry(c).issues
        IN  /\ op.kind = "insert" => Insertable(db, op, c.payload)
            /\ db' = ApplyOp(db, op, c.payload)
            /\ toast' = ToastAfter(c, OnSuccess(c.fn).returns)
            /\ calls' = calls \ {c}
            /\ da' = [pc |-> "returned", fn |-> c.fn, result |-> OnSuccess(c.fn).returns,
                      path |-> "succeeded"]
            /\ dispatch([type |-> "SET_FOLDERS", workspaceId |-> state.workspaceId,
                         folders |-> RowSeq(FolderIdSeq,
                                            RowsWhere(db'.folders, "workspaceId",
                                                      state.workspaceId))])
            /\ UNCHANGED <<issued, steps, keyTest, serverVars, userEmail, handler, isEditing>>

CallSucceeds ==
    \E c \in calls :
        LET op == Entry(c).issues
        IN  /\ op.kind = "insert" => Insertable(db, op, c.payload)
            /\ db' = ApplyOp(db, op, c.payload)
            /\ toast' = ToastAfter(c, OnSuccess(c.fn).returns)
            /\ calls' = calls \ {c}
            /\ da' = Returned(c, OnSuccess(c.fn).returns, "succeeded")
            /\ UNCHANGED <<storeVars, keyTest, serverVars, userEmail, handler, isEditing>>

CallFailsMutant ==
    \E c \in calls :
        /\ toast' = ToastAfter(c, OnFailure(c.fn).returns)
        /\ calls' = calls \ {c}
        /\ da' = Returned(c, OnFailure(c.fn).returns, "failed")
        /\ dispatch([type |-> "SET_FOLDERS", workspaceId |-> state.workspaceId,
                     folders |-> RowSeq(FolderIdSeq,
                                        RowsWhere(db.folders, "workspaceId",
                                                  state.workspaceId))])
        /\ UNCHANGED <<issued, steps, keyTest, serverVars, userEmail, handler, isEditing, db>>

CallFails ==
    \E c \in calls :
        /\ toast' = ToastAfter(c, OnFailure(c.fn).returns)
        /\ calls' = calls \ {c}
        /\ da' = Returned(c, OnFailure(c.fn).returns, "failed")
        /\ UNCHANGED <<storeVars, keyTest, serverVars, userEmail, handler, isEditing, db>>

InitUI ==
    /\ state = [workspaces |-> <<>>, workspaceId |-> NoId, folderId |-> NoId]
    /\ last = [type |-> "INIT"]
    /\ before = <<>>
    /\ steps = 0
    /\ db = [workspaces |-> {WorkspaceRow(W1, U1), WorkspaceRow(W2, U1)},
             folders |-> {FolderRow(W1, F1), FolderRow(W1, F2)},
             files |-> {NewFile(W1, F1, G1)},
             collaborators |-> {}]
    /\ issued = {<<W1, Root>>, <<W2, Root>>, <<F1, W1>>, <<F2, W1>>, <<G1, F1>>}
    /\ userEmail \in {Email, UNDEFINED}
    /\ calls = {}
    /\ toast = NoToast
    /\ handler = NoHandler
    /\ isEditing = {}
    /\ keyTest = KeyIdle
    /\ da = DaIdle
    /\ InitServerIdle

NextUI ==
    \/ SetWorkspacesEffect
    \/ Navigate
    \/ LoadFolders
    \/ LoadFiles
    \/ MoveToTrash
    \/ AddNewFile
    \/ CallSucceeds
    \/ CallFails

SpecUI == InitUI /\ [][NextUI]_vars

(* the sidebar once the workspaces, the folders of workspace W1 and the files
   of the current folder are loaded; the route names W1 and one of its folders *)
InitTree ==
    /\ last = [type |-> "INIT"]
    /\ before = <<>>
    /\ steps = 0
    /\ db = [workspaces |-> {WorkspaceRow(W1, U1), WorkspaceRow(W2, U1)},
             folders |-> {FolderRow(W1, F1), FolderRow(W1, F2)},
             files |-> {NewFile(W1, F1, G1)},
             collaborators |-> {}]
    /\ issued = {<<W1, Root>>, <<W2, Root>>, <<F1, W1>>, <<F2, W1>>, <<G1, F1>>}
    /\ userEmail = Email
    /\ calls = {}
    /\ toast = NoToast
    /\ handler = NoHandler
    /\ isEditing = {}
    /\ keyTest = KeyIdle
    /\ da = DaIdle
    /\ InitServerIdle
    /\ \E f \in FolderIds :
          state = Reducer(
                    Reducer(
                      Reducer(
                        Reducer(
                          Reducer([workspaces |-> <<>>, workspaceId |-> NoId,
                                   folderId |-> NoId],
                                  [type |-> "SET_WORKSPACES",
                                   workspaces |-> [i \in 1..Len(WorkspaceProps) |->
                                       [k \in DOMAIN WorkspaceProps[i] \cup {"folders"} |->
                                           IF k = "folders" THEN <<>>
                                           ELSE WorkspaceProps[i][k]]]]),
                          [type |-> "SET_CURRENT_WORKSPACE", workspaceId |-> W1]),
                        [type |-> "SET_CURRENT_FOLDER", folderId |-> f]),
                      [type |-> "SET_FOLDERS", workspaceId |-> W1,
                       folders |-> RowSeq(FolderIdSeq,
                                          RowsWhere(db.folders, "workspaceId", W1))]),
                    [type |-> "SET_FILES", workspaceId |-> W1, folderId |-> f,
                     files |-> RowSeq(FileIdSeq, RowsWhere(db.files, "folderId", f))])

NextTree ==
    \/ MoveToTrash
    \/ AddNewFile
    \/ OnChangeEmoji
    \/ HandleDoubleClick
    \/ TitleChange
    \/ HandleBlur
    \/ CallSucceeds
    \/ CallFails

SpecTree == InitTree /\ [][NextTree]_vars

(***************************************************************************)
(* Optimistic updates: the store against the calls in flight and the rows   *)
(***************************************************************************)
(* the node of the tree a call is about: a folder, or a file *)
StoreEntity(s, c) ==
    LET folders == UNION {Range(ws.folders) : ws \in Range(s.workspaces)}
        nodes == IF c.fn = "updateFolder" THEN folders
                 ELSE UNION {Range(fo.files) : fo \in folders}
    IN  IF \E n \in nodes : n.id = c.id THEN CHOOSE n \in nodes : n.id = c.id
        ELSE NotFound

(* the rows a call is about *)
Persisted(d, c) ==
    {r \in (IF c.fn = "updateFolder" THEN d.folders ELSE d.files) : r.id = c.id}

(* the node holds the values the call carries *)
Reflects(s, c) ==
    /\ StoreEntity(s, c) # NotFound
    /\ \A k \in DOMAIN c.payload : StoreEntity(s, c)[k] = c.payload[k]

(* the folder or file a handler was run on *)
EntityOf(h) == IF h.listType = "folder" THEN h.id ELSE At(SplitId(h.id), 2)

OptimisticHandlers == {"onChangeEmoji", "moveToTrash", "addNewFile"}

(* C18: in a change of emoji, a move to the trash and a file creation the
   store action is dispatched before the persistence call is issued: on the
   step that puts the call in flight the action is the last one dispatched
   and the tree already holds the values the call carries, and while the call
   is in flight the tree keeps holding them until a later operation on the
   same folder or file changes them again. *)
C18_DispatchPrecedesCall ==
    [][/\ \A c \in calls' \ calls :
            c.handler \in OptimisticHandlers =>
                /\ last'.type \in {"UPDATE_FOLDER", "UPDATE_FILE", "ADD_FILE"}
                /\ state' = Reducer(state, last')
                /\ Reflects(state', c)
       /\ \A c \in calls \cap calls' :
            (c.handler \in OptimisticHandlers /\ Reflects(state, c) /\ ~Reflects(state', c))
                => /\ steps' = steps + 1
                   /\ handler'.acted
                   /\ EntityOf(handler') = c.id
      ]_vars

(* an emoji change and a file creation are in flight and the tree shows both *)
C18_Witness ==
    /\ \E c \in calls : c.handler = "onChangeEmoji" /\ Reflects(state, c)
    /\ \E c \in calls : c.handler = "addNewFile" /\ Reflects(state, c)

(* C19: when the persistence call paired with an optimistic store action
   fails, the failure notification of its handler is shown and the store is
   not rolled back: the step leaves the tree as it was and dispatches no
   action. *)
C19_FailureNotifiesWithoutRollback ==
    [][\A c \in calls \ calls' :
            da'.path = "failed" =>
                /\ toast'.title = "Error"
                /\ c.handler = "moveToTrash" =>
                        toast'.description = "Could not move the folder to trash"
                /\ c.handler = "onChangeEmoji" =>
                        toast'.description = "Could not update the emoji for this folder"
                /\ state' = state
                /\ last' = last
      ]_vars

(* a call failed, the error is shown, nothing is in flight, and a folder is
   in the trash or has its new emoji in the tree but not in its row *)
C19_Witness ==
    /\ da.pc = "returned"
    /\ da.path = "failed"
    /\ toast.title = "Error"
    /\ calls = {}
    /\ \E r \in db.folders :
            LET fo == FindFolder(state, state.workspaceId, r.id)
            IN  /\ fo # NotFound
                /\ fo.inTrash = DeletedBy(Email)
                /\ r.inTrash = ""
    /\ \E r \in db.folders :
            LET fo == FindFolder(state, state.workspaceId, r.id)
            IN  /\ fo # NotFound
                /\ fo.iconId \in Emojis
                /\ r.iconId \notin Emojis

(* C20: after a mutating operation of a tree node whose persistence call
   returns without error, with no other call for that folder or file in
   flight, every field the operation changed in the store has the same value
   in the persisted row of that folder or file. *)
C20_StoreAgreesWithPersistenceAfterSuccess ==
    [][\A c \in calls \ calls' :
            (da'.path = "succeeded" /\ \A o \in calls' : o.id # c.id) =>
                /\ Persisted(db', c) # {}
                /\ StoreEntity(state', c) # NotFound
                /\ \A r \in Persisted(db', c) : \A k \in DOMAIN c.payload :
                        StoreEntity(state', c)[k] = r[k]
      ]_vars

(* C20, as the code has it: a call carries the values the tree holds for its
   folder or file when it is issued; when it returns without error and a row
   of that folder or file exists, the row holds those values in every field
   the operation changed, and so agrees with the tree wherever the tree still
   holds them. *)
C20_PersistedRowHoldsDispatchedValues ==
    [][/\ \A c \in calls' \ calls : Reflects(state', c)
       /\ \A c \in calls \ calls' :
            da'.path = "succeeded" =>
                \A r \in Persisted(db', c) : \A k \in DOMAIN c.payload :
                    /\ r[k] = c.payload[k]
                    /\ Reflects(state', c) => StoreEntity(state', c)[k] = r[k]
      ]_vars

(* a title typed into a folder node was committed and is in the row and in
   the tree *)
C20_Witness ==
    /\ da.pc = "returned"
    /\ da.path = "succeeded"
    /\ toast = Toast("Success", "Folder title changed.")
    /\ \E r \in db.folders :
            /\ r.title = "T"
            /\ FindFolder(state, state.workspaceId, r.id) # NotFound
            /\ FindFolder(state, state.workspaceId, r.id).title = "T"

(***************************************************************************)
(* Moving a node to the trash                                              *)
(***************************************************************************)
RowIds(d) == {r.id : r \in d.folders} \cup {r.id : r \in d.files}

(* the step on which moveToTrash ran past its guard *)
MovedToTrash ==
    /\ steps' = steps + 1
    /\ handler'.name = "moveToTrash"
    /\ handler'.acted

TrashedNode(s, h) ==
    IF h.listType = "folder"
    THEN FindFolder(s, s.workspaceId, At(SplitId(h.id), 1))
    ELSE FindFile(s, s.workspaceId, At(SplitId(h.id), 1), At(SplitId(h.id), 2))

(* C6: moving a folder or a file to the trash only sets its trash marker to
   "Deleted by {actor}": the node is still found by id with its other fields
   as they were, no node leaves the tree, the non-trashed listings omit it,
   the action dispatched is an UPDATE_* and never a DELETE_*, the call issued
   is an update and never a delete, and no row leaves persistence, neither on
   that step nor when the call comes back. *)
C6_MoveToTrashOnlySetsMarker ==
    [][/\ MovedToTrash =>
            /\ TrashedNode(state, handler') # NotFound
            /\ TrashedNode(state', handler') =
                   Merge(TrashedNode(state, handler'), [inTrash |-> DeletedBy(userEmail)])
            /\ AllFolderIds(state') = AllFolderIds(state)
            /\ AllFileIds(state') = AllFileIds(state)
            /\ [id |-> handler'.id, listType |-> handler'.listType] \notin Nodes'
            /\ last'.type \in {"UPDATE_FOLDER", "UPDATE_FILE"}
            /\ \A c \in calls' \ calls :
                    /\ c.fn \in {"updateFolder", "updateFile"}
                    /\ Entry(c).issues.kind = "update"
            /\ db' = db
       /\ \A c \in calls \ calls' :
            c.handler = "moveToTrash" => RowIds(db') = RowIds(db)
      ]_vars

(* a folder and a file have been moved to the trash and are still in the tree *)
C6_Witness ==
    /\ handler.name = "moveToTrash"
    /\ handler.acted
    /\ handler.listType = "file"
    /\ TrashedNode(state, handler) # NotFound
    /\ TrashedNode(state, handler).inTrash = DeletedBy(Email)
    /\ \E f \in FolderIds :
            /\ FindFolder(state, state.workspaceId, f) # NotFound
            /\ FindFolder(state, state.workspaceId, f).inTrash = DeletedBy(Email)
    /\ \E r \in db.files : r.inTrash = DeletedBy(Email)

(***************************************************************************)
(* Title editing: Idle -> Editing -> Idle                                  *)
(***************************************************************************)
(* the step is a run of this handler *)
Ran(name) == steps' = steps + 1 /\ handler'.name = name

(* the node of the tree a handler was run on *)
StoreNode(s, h) == TrashedNode(s, h)

(* C21: the editing flag of every tree node starts Idle; it becomes Editing
   only on a double click on that node and returns to Idle on the focus-loss
   of that node (a node that is no longer rendered has no flag); a focus-loss
   while Idle changes nothing and issues no persistence call; and a focus-loss
   while Editing issues at most one update, of the title only. *)
C21_EditingStateMachine ==
    /\ isEditing = {}
    /\ [][/\ isEditing' \ isEditing # {} =>
                /\ Ran("handleDoubleClick")
                /\ isEditing' = isEditing \cup {handler'.id}
          /\ \A id \in isEditing \ isEditing' :
                \/ Ran("handleBlur") /\ handler'.id = id
                \/ Mounted({id}, state') = {}
          /\ (Ran("handleBlur") /\ handler'.id \notin isEditing) =>
                /\ ~handler'.acted
                /\ UNCHANGED <<state, last, calls, isEditing, db, toast>>
          /\ (Ran("handleBlur") /\ handler'.id \in isEditing) =>
                /\ handler'.id \notin isEditing'
                /\ calls \subseteq calls'
                /\ Cardinality(calls' \ calls) <= 1
                /\ \A c \in calls' \ calls :
                        /\ c.fn \in {"updateFolder", "updateFile"}
                        /\ DOMAIN c.payload = {"title"}
         ]_vars

(* a node went from Editing to Idle on a focus-loss that issued its update *)
C21_Witness ==
    /\ handler.name = "handleBlur"
    /\ handler.acted
    /\ handler.id \notin isEditing
    /\ \E c \in calls : c.handler = "handleBlur" /\ c.n = steps - 1

(* C22: on the focus-loss of a folder or file node in Editing whose title in
   the store is not empty, one update is issued for that folder or file and
   the title it sends is the title the store holds for the node on that step. *)
C22_CommittedTitleIsStoreTitle ==
    [][(Ran("handleBlur") /\ handler'.id \in isEditing
            /\ ~Not(StoreNode(state, handler').title)) =>
            \E c \in calls' \ calls :
                /\ c.id = EntityOf(handler')
                /\ c.fn = IF handler'.listType = "folder" THEN "updateFolder"
                          ELSE "updateFile"
                /\ c.payload = [title |-> StoreNode(state, handler').title]
      ]_vars

(* a title typed into a file node is on its way to persistence *)
C22_Witness ==
    /\ handler.name = "handleBlur"
    /\ \E c \in calls :
            /\ c.handler = "handleBlur"
            /\ c.fn = "updateFile"
            /\ c.payload.title = "T"
            /\ StoreEntity(state, c).title = "T"

(* keys that split into neither one part nor two parts with a file id *)
UnparsedKeys ==
    {customFileId(F1, NoId), customFileId(customFileId(F1, G1), G2)}

(* C23: on a focus-loss in Editing, when the title the store holds for the
   node is empty the commit is aborted: no update is issued, no row changes
   and no notification is shown; and for a key that parses neither to a
   folder id nor to a folder id and a file id handleBlur issues nothing. *)
C23_EmptyTitleAbortsCommit ==
    /\ [](\A key \in UnparsedKeys, listType \in {"folder", "file"} :
            handleBlurCall(state, [id |-> key, listType |-> listType]) = NoCall)
    /\ [][(Ran("handleBlur") /\ handler'.id \in isEditing
                /\ Not(StoreNode(state, handler').title)) =>
                /\ handler'.id \notin isEditing'
                /\ UNCHANGED <<calls, toast, db, state>>
         ]_vars

(* a folder node whose title was emptied lost focus: nothing was issued *)
C23_Witness ==
    /\ handler.name = "handleBlur"
    /\ handler.acted
    /\ handler.listType = "folder"
    /\ StoreNode(state, handler).title = ""
    /\ calls = {}
    /\ toast = NoToast

(***************************************************************************)
(* WorkspaceDropdown: the effect that hands the workspaces to the store,   *)
(* next to the loading of folders and files and the removal of workspaces  *)
(***************************************************************************)
NextWs ==
    \/ SetWorkspacesEffect
    \/ Navigate
    \/ LoadFolders
    \/ LoadFiles
    \/ DispatchDeleteWorkspace

SpecWs == InitUI /\ [][NextWs]_vars

(* C24: WorkspaceDropdown dispatches SET_WORKSPACES only in a state where the
   workspace list of the store is empty; while the store holds a workspace no
   run of the effect dispatches it, so no folder and no file already in the
   tree is lost to it. *)
C24_SetWorkspacesOnlyWhenEmpty ==
    [][(last' # last /\ last'.type = "SET_WORKSPACES") =>
            /\ Len(state.workspaces) = 0
            /\ AllFolderIds(state) \subseteq AllFolderIds(state')
            /\ AllFileIds(state) \subseteq AllFileIds(state')
      ]_vars

(* folders and files are loaded under a workspace the effect put in the store *)
C24_Witness ==
    /\ Len(state.workspaces) > 0
    /\ AllFolderIds(state) # {}
    /\ AllFileIds(state) # {}
    /\ last.type # "SET_WORKSPACES"

(***************************************************************************)
(* The address of the UPDATE_FILE actions of a file node                   *)
(***************************************************************************)
(* C25: every UPDATE_FILE action a file node dispatches, on a title change
   and on a move to the trash, carries the folder id and the file id parsed
   from the composite key of the node, and so finds the file in the folder
   that holds it whatever the current folder of the navigation context. *)
C25_UpdateFileAddressedByKey ==
    [][((Ran("titleChange") \/ Ran("moveToTrash"))
            /\ handler'.listType = "file" /\ handler'.acted) =>
            /\ last'.type = "UPDATE_FILE"
            /\ last'.folderId = At(SplitId(handler'.id), 1)
            /\ last'.fileId = At(SplitId(handler'.id), 2)
            /\ FindFile(state, last'.workspaceId, last'.folderId, last'.fileId) # NotFound
      ]_vars

(***************************************************************************)
(* Two updates of one field racing                                         *)
(***************************************************************************)
(* C26: the calls in flight are applied in the order they come back, not the
   order they were dispatched in: a call that returns without error leaves its
   values in the row whatever was dispatched since, so after two emoji
   changes A then B of one folder the row ends with the value of the call
   applied last, which may be A, while the store holds B, the value
   dispatched last; and no return of a call dispatches anything or changes
   the tree, so nothing reconciles the two. *)
C26_LastResponseWins ==
    [][/\ \A c \in calls \ calls' :
            /\ state' = state
            /\ last' = last
            /\ da'.path = "succeeded" =>
                    \A r \in Persisted(db', c) : \A k \in DOMAIN c.payload :
                        r[k] = c.payload[k]
            /\ da'.path = "failed" => db' = db
       /\ (Ran("onChangeEmoji") /\ handler'.acted) =>
            \E c \in calls' \ calls :
                /\ c.n = steps
                /\ last'.folder = c.payload
                /\ StoreNode(state', handler').iconId = c.payload.iconId
      ]_vars

(* emoji E1 then E2 were dispatched for one folder; the call of E2 has been
   applied and the call of E1, still in flight, will be applied last *)
C26_Witness ==
    \E c \in calls :
        /\ c.handler = "onChangeEmoji"
        /\ c.payload.iconId = "E1"
        /\ c.n < steps - 1
        /\ da.pc = "returned"
        /\ da.path = "succeeded"
        /\ last.type = "UPDATE_FOLDER"
        /\ last.folderId = c.id
        /\ last.folder = [iconId |-> "E2"]
        /\ StoreEntity(state, c).iconId = "E2"
        /\ \A r \in Persisted(db, c) : r.iconId = "E2"
        /\ Persisted(db, c) # {}

(***************************************************************************)
(* Files created from the sidebar                                          *)
(***************************************************************************)
(* C27: a file created by addNewFile refers to the workspace of the folder its
   folder reference names: the folder is a folder of that workspace in the
   store and its row is a row of that workspace; the node added to the store
   and the record sent to createFile are that one file, ADD_FILE is addressed
   to its (workspaceId, folderId), and the row a successful createFile writes
   is the record sent. *)
C27_NewFileReferencesAgree ==
    [][/\ (Ran("addNewFile") /\ handler'.acted) =>
            \E c \in calls' \ calls :
                LET file == c.payload
                    folder == FindFolder(state, file.workspaceId, file.folderId)
                IN  /\ c.fn = "createFile"
                    /\ file.folderId = handler'.id
                    /\ folder # NotFound
                    /\ folder.workspaceId = file.workspaceId
                    /\ \A r \in RowsWhere(db.folders, "id", file.folderId) :
                            r.workspaceId = file.workspaceId
                    /\ last'.type = "ADD_FILE"
                    /\ last'.workspaceId = file.workspaceId
                    /\ last'.folderId = file.folderId
                    /\ last'.file = file
                    /\ FindFile(state', file.workspaceId, file.folderId, file.id) = file
       /\ \A c \in calls \ calls' :
            (c.fn = "createFile" /\ da'.path = "succeeded") =>
                /\ c.payload \in db'.files
                /\ \A r \in RowsWhere(db'.folders, "id", c.payload.folderId) :
                        r.workspaceId = c.payload.workspaceId
      ]_vars

(* a file added from the sidebar is in the store and its record has been
   written *)
C27_Witness ==
    /\ handler.name = "addNewFile"
    /\ handler.acted
    /\ da.pc = "returned"
    /\ da.fn = "createFile"
    /\ da.path = "succeeded"
    /\ \E r \in db.files :
            /\ r.folderId = handler.id
            /\ r.id # G1
            /\ RowsWhere(db.folders, "id", r.folderId) # {}
            /\ FindFile(state, r.workspaceId, r.folderId, r.id) = r

(***************************************************************************)
(* Collaborators: addCollaborators / removeCollaborators and the workspace *)
(* listings that join through the collaborators table                      *)
(***************************************************************************)
MaxCollabCalls == 2

CollaboratorRow(n, workspaceId, userId) ==
    [id |-> n, workspaceId |-> workspaceId, userId |-> userId]

(* uuid('id').defaultRandom(): an id no row of the table has *)
FreshRowId(rows) ==
    IF rows = {} THEN 1
    ELSE 1 + (CHOOSE n \in {r.id : r \in rows} : \A r \in rows : r.id <= n)

(* db.query.collaborators.findFirst({ where: and(eq(userId), eq(workspaceId)) }) *)
RowsOfPair(d, workspaceId, userId) ==
    {r \in d.collaborators : r.userId = userId /\ r.workspaceId = workspaceId}

UserLists == {<<U1>>, <<U2>>, <<U2, U2>>}

(* users.forEach(async (user) => ...): every callback runs up to its first
   await, the findFirst, and the function returns without awaiting them *)
StartCallbacks(op, users, workspaceId) ==
    /\ Len(log) <= MaxCollabCalls
    /\ tasks' = tasks \cup
            {[n |-> Len(log), k |-> k, op |-> op, workspaceId |-> workspaceId,
              userId |-> users[k], pc |-> "finding"] : k \in 1..Len(users)}
    /\ log' = Append(log, [op |-> op, workspaceId |-> workspaceId, users |-> users])
    /\ UNCHANGED <<storeVars, keyTest, da, userEmail, db, calls, toast, handler, isEditing,
                   listed, req, searchVars>>

AddCollaborators == \E users \in UserLists : StartCallbacks("add", users, W1)

RemoveCollaborators == \E users \in UserLists : StartCallbacks("remove", users, W1)

(* the findFirst of a callback is answered and the callback resumes: it issues
   its insert or delete, or ends *)
CallbackFinds ==
    \E t \in tasks :
        LET userExists == RowsOfPair(db, t.workspaceId, t.userId) # {}
        IN  /\ t.pc = "finding"
            /\ tasks' = IF (t.op = "add") = userExists
                        THEN tasks \ {t}
                        ELSE (tasks \ {t}) \cup {[t EXCEPT !.pc = "writing"]}
            /\ UNCHANGED <<storeVars, keyTest, da, uiVars, log, listed, req, searchVars>>

(* the insert or delete of a callback is applied *)
CallbackWrites ==
    \E t \in tasks :
        /\ t.pc = "writing"
        /\ db' = IF t.op = "add"
                 THEN [db EXCEPT !.collaborators =
                          @ \cup {CollaboratorRow(FreshRowId(@), t.workspaceId, t.userId)}]
                 ELSE [db EXCEPT !.collaborators =
                          @ \ RowsOfPair(db, t.workspaceId, t.userId)]
        /\ tasks' = tasks \ {t}
        /\ UNCHANGED <<storeVars, keyTest, da, userEmail, calls, toast, handler, isEditing, log, listed,
                       req, searchVars>>

OneRow(w) == [row |-> w, n |-> 1]

(* where(and(notExists(select from collaborators where workspaceId = workspaces.id),
             eq(workspaces.workspaceOwner, userId))) *)
getPrivateWorkspaces(d, userId) ==
    IF IsEmpty(userId) THEN {}
    ELSE {OneRow(w) : w \in {x \in d.workspaces :
                /\ ~\E c \in d.collaborators : c.workspaceId = x.id
                /\ x.workspaceOwner = userId}}

(* from users inner join collaborators inner join workspaces where users.id =
   userId: one result row per collaborators row *)
getCollaboratingWorkspaces(d, userId) ==
    IF IsEmpty(userId) THEN {}
    ELSE {[row |-> w, n |-> c.id] : <<c, w>> \in
                {j \in d.collaborators \X d.workspaces :
                    /\ j[1].userId \in UserIds
                    /\ j[1].userId = userId
                    /\ j[1].workspaceId = j[2].id}}

getSharedWorkspacesMutant(d, userId) ==
    IF IsEmpty(userId) THEN {}
    ELSE {[row |-> j[2], n |-> j[1].id] : j \in
                {j \in d.collaborators \X d.workspaces :
                    /\ j[1].workspaceId = j[2].id
                    /\ j[2].workspaceOwner = userId}}

(* selectDistinct from workspaces inner join collaborators where
   workspaceOwner = userId: the joined rows with duplicates removed *)
getSharedWorkspaces(d, userId) ==
    IF IsEmpty(userId) THEN {}
    ELSE {OneRow(w) : w \in {j[2] : j \in
                {j \in d.collaborators \X d.workspaces :
                    /\ j[1].workspaceId = j[2].id
                    /\ j[2].workspaceOwner = userId}}}

ListingUsers == UserIds \cup {EmptyId}

Listing(fn, userId, rows) ==
    /\ listed' = [fn |-> fn, userId |-> userId, rows |-> rows]
    /\ UNCHANGED <<storeVars, keyTest, da, uiVars, tasks, log, req, searchVars>>

GetPrivateWorkspaces ==
    \E u \in ListingUsers : Listing("getPrivateWorkspaces", u, getPrivateWorkspaces(db, u))

GetCollaboratingWorkspaces ==
    \E u \in ListingUsers :
        Listing("getCollaboratingWorkspaces", u, getCollaboratingWorkspaces(db, u))

GetSharedWorkspaces ==
    \E u \in ListingUsers : Listing("getSharedWorkspaces", u, getSharedWorkspaces(db, u))

(* select from collaborators where workspaceId, then one users.findFirst per
   row; rows whose user is not found are filtered out.  One result per
   collaborators row. *)
getCollaborators(d, workspaceId) ==
    {[row |-> c.userId, n |-> c.id] : c \in
        {r \in d.collaborators : r.workspaceId = workspaceId /\ r.userId \in UserIds}}

GetCollaborators ==
    \E w \in WsIds : Listing("getCollaborators", w, getCollaborators(db, w))

InitCollab ==
    /\ InitStore
    /\ keyTest = KeyIdle
    /\ da = DaIdle
    /\ userEmail = Email
    /\ calls = {}
    /\ toast = NoToast
    /\ handler = NoHandler
    /\ isEditing = {}
    /\ \E rows \in {{}, {CollaboratorRow(1, W1, U2)}, {CollaboratorRow(1, W2, U1)}} :
          /\ db = [workspaces |-> {WorkspaceRow(W1, U1), WorkspaceRow(W2, U2)},
                   folders |-> {}, files |-> {}, collaborators |-> rows]
          /\ log = <<[op |-> "start", rows |-> rows]>>
    /\ tasks = {}
    /\ listed = NoListing
    /\ req = ReqIdle
    /\ InitSearch

NextCollab ==
    \/ AddCollaborators
    \/ RemoveCollaborators
    \/ CallbackFinds
    \/ CallbackWrites
    \/ GetPrivateWorkspaces
    \/ GetCollaboratingWorkspaces
    \/ GetSharedWorkspaces
    \/ GetCollaborators

SpecCollab == InitCollab /\ [][NextCollab]_vars

PairCount(rows, workspaceId, userId) ==
    Cardinality({r \in rows : r.userId = userId /\ r.workspaceId = workspaceId})

(* two contents of the collaborators table that differ in row ids at most *)
SameTable(a, b) ==
    \A w \in WsIds, u \in UserIds : PairCount(a, w, u) = PairCount(b, w, u)

(* the table after one add or remove of a single pair has run to its end *)
AppliedOnce(rows, call) ==
    LET u == call.users[1]
        present == {r \in rows : r.userId = u /\ r.workspaceId = call.workspaceId}
    IN  IF call.op = "add"
        THEN (IF present # {} THEN rows
              ELSE rows \cup {CollaboratorRow(FreshRowId(rows), call.workspaceId, u)})
        ELSE rows \ present

\* C13: addCollaborators with a pair that already has a row leaves the
\* collaborators table unchanged, removeCollaborators with a pair that has no
\* row leaves it unchanged, and either operation applied twice in sequence
\* yields the same table as applied once.
C13_CollaboratorOpsIdempotent ==
    (tasks = {} /\ Len(log) >= 2 /\ Len(log[2].users) = 1) =>
        LET start == log[1].rows
            present == PairCount(start, log[2].workspaceId, log[2].users[1]) > 0
        IN  /\ (Len(log) = 2 /\ log[2].op = "add" /\ present) => db.collaborators = start
            /\ (Len(log) = 2 /\ log[2].op = "remove" /\ ~present) => db.collaborators = start
            /\ (Len(log) = 3 /\ log[3] = log[2]) =>
                    SameTable(db.collaborators, AppliedOnce(start, log[2]))

HasCollaborators(d, w) == \E c \in d.collaborators : c.workspaceId = w.id

Copies(rows, w) == Cardinality({r \in rows : r.row = w})

\* C14: for every user u and every content of the workspaces and collaborators
\* tables, getPrivateWorkspaces(u) returns exactly the workspaces owned by u
\* that have no collaborators row, getSharedWorkspaces(u) returns each
\* workspace owned by u that has at least one collaborators row exactly once,
\* and getCollaboratingWorkspaces(u) returns exactly the workspaces that have
\* a collaborators row for u.
C14_ListingsFollowCollaborators ==
    [][listed' # listed =>
        LET u == listed'.userId
            returned == {r.row : r \in listed'.rows}
        IN  CASE listed'.fn = "getPrivateWorkspaces" ->
                    returned = {w \in db.workspaces :
                                    w.workspaceOwner = u /\ ~HasCollaborators(db, w)}
              [] listed'.fn = "getSharedWorkspaces" ->
                    /\ returned = {w \in db.workspaces :
                                    w.workspaceOwner = u /\ HasCollaborators(db, w)}
                    /\ \A w \in returned : Copies(listed'.rows, w) = 1
              [] listed'.fn = "getCollaboratingWorkspaces" ->
                    returned = {w \in db.workspaces : PairCount(db.collaborators, w.id, u) > 0}
              [] OTHER -> TRUE
      ]_vars

(* a workspace with two collaborators rows for the same user has been listed:
   twice for that user *)
C14_Witness ==
    /\ listed.fn = "getCollaboratingWorkspaces"
    /\ listed.userId = U2
    /\ Cardinality(listed.rows) = 2
    /\ {r.row : r \in listed.rows} = {WorkspaceRow(W1, U1)}

(* C28: whatever the interleaving of the check-then-insert callbacks of
   addCollaborators, within one call whose user list repeats a user or across
   calls for one workspace, the collaborators table never holds two rows for
   one (workspaceId, userId) pair. *)
C28_OneRowPerPair ==
    \A w \in WsIds, u \in UserIds : PairCount(db.collaborators, w, u) <= 1

(* C29: addCollaborators and removeCollaborators have returned as soon as
   their callbacks are started, so the caller's next getCollaborators of the
   workspace comes after the promise resolved: it returns every user of the
   add it follows and no user of the remove it follows. *)
C29_ResolvedCallIsApplied ==
    [][(listed' # listed /\ listed'.fn = "getCollaborators" /\ Len(log) = 2
            /\ log[2].workspaceId = listed'.userId) =>
        LET returned == {r.row : r \in listed'.rows}
            users == {log[2].users[k] : k \in 1..Len(log[2].users)}
        IN  IF log[2].op = "add" THEN users \subseteq returned
            ELSE users \cap returned = {}
      ]_vars


(***************************************************************************)
(* The middleware: one request, its session, the response                  *)
(***************************************************************************)
MaxHops == 2

DashboardPath == <<"/", "d", "a", "s", "h", "b", "o", "a", "r", "d">>
LoginPath == <<"/", "l", "o", "g", "i", "n">>
SignupPath == <<"/", "s", "i", "g", "n", "u", "p">>
HomePath == <<"/">>

Paths == {DashboardPath, DashboardPath \o <<"/", "a", "1">>, DashboardPath \o <<"s">>,
          LoginPath, LoginPath \o <<"/", "x">>, SignupPath, SignupPath \o <<"/", "x">>,
          HomePath}

emailLinkError == "Email link is invalid or has expired"

(* searchParams.get('error_description'): null when the parameter is absent *)
ErrorDescriptions == {NULL, emailLinkError, "access_denied"}

(* String.prototype.startsWith *)
StartsWith(str, prefix) ==
    /\ Len(str) >= Len(prefix)
    /\ SubSeq(str, 1, Len(prefix)) = prefix

PassThrough == [kind |-> "next"]

Redirect(path, description) ==
    [kind |-> "redirect", path |-> path, error_description |-> description]

middlewareMutant(pathname, description, session) ==
    IF description = emailLinkError /\ pathname # SignupPath
    THEN Redirect(SignupPath, description)
    ELSE IF StartsWith(pathname, DashboardPath) /\ ~session
    THEN Redirect(LoginPath, NULL)
    ELSE IF pathname \in {LoginPath, SignupPath} /\ session
    THEN Redirect(DashboardPath, NULL)
    ELSE PassThrough

middleware(pathname, description, session) ==
    IF StartsWith(pathname, DashboardPath) /\ ~session
    THEN Redirect(LoginPath, NULL)
    ELSE IF description = emailLinkError /\ pathname # SignupPath
    THEN Redirect(SignupPath, description)
    ELSE IF pathname \in {LoginPath, SignupPath} /\ session
    THEN Redirect(DashboardPath, NULL)
    ELSE PassThrough

MwStep(r) == /\ req' = r
             /\ UNCHANGED <<storeVars, keyTest, da, uiVars, tasks, log, listed, searchVars>>

(* a request arrives: its path, its error_description parameter, and whether
   getSession() finds a session *)
Request ==
    /\ req.pc = "idle"
    /\ \E path \in Paths, description \in ErrorDescriptions, session \in BOOLEAN :
          MwStep([pc |-> "received", path |-> path, error_description |-> description,
                  session |-> session, hops |-> 0])

Respond ==
    /\ req.pc = "received"
    /\ MwStep([pc |-> "responded", path |-> req.path,
               error_description |-> req.error_description, session |-> req.session,
               hops |-> req.hops,
               response |-> middleware(req.path, req.error_description, req.session)])

(* the browser follows a redirect: a new request with the same session *)
FollowRedirect ==
    /\ req.pc = "responded"
    /\ req.response.kind = "redirect"
    /\ req.hops < MaxHops
    /\ MwStep([pc |-> "received", path |-> req.response.path,
               error_description |-> req.response.error_description,
               session |-> req.session, hops |-> req.hops + 1])

(* the response is delivered *)
Deliver ==
    /\ req.pc = "responded"
    /\ req.response.kind = "next" \/ req.hops = MaxHops
    /\ MwStep(ReqIdle)

InitMw ==
    /\ InitStore
    /\ InitUIIdle
    /\ keyTest = KeyIdle
    /\ da = DaIdle
    /\ InitServerIdle

NextMw == Request \/ Respond \/ FollowRedirect \/ Deliver

SpecMw == InitMw /\ [][NextMw]_vars

\* C17: the middleware lets a path starting with /dashboard proceed only when
\* a session exists and otherwise redirects to /login, and it redirects a
\* request for /login or /signup that carries a session to /dashboard; no
\* request without a session receives the pass-through response for a
\* /dashboard path.
C17_MiddlewareGuardsRoutes ==
    req.pc = "responded" =>
        /\ StartsWith(req.path, DashboardPath) =>
                IF req.session THEN req.response # Redirect(LoginPath, NULL)
                ELSE req.response = Redirect(LoginPath, NULL)
        /\ (req.path \in {LoginPath, SignupPath} /\ req.session) =>
                req.response = Redirect(DashboardPath, NULL)

\* C17 amended: as C17, except that a request for /login that carries a
\* session and the error_description 'Email link is invalid or has expired'
\* is redirected to /signup with that description (and from there to
\* /dashboard), and a /dashboard request with a session and that description
\* is redirected to /signup as well instead of proceeding.
C17_MiddlewareGuardsRoutesButEmailLinkError ==
    req.pc = "responded" =>
        /\ StartsWith(req.path, DashboardPath) =>
                IF ~req.session THEN req.response = Redirect(LoginPath, NULL)
                ELSE IF req.error_description = emailLinkError
                THEN req.response = Redirect(SignupPath, emailLinkError)
                ELSE req.response = PassThrough
        /\ (req.path \in {LoginPath, SignupPath} /\ req.session) =>
                IF req.path = LoginPath /\ req.error_description = emailLinkError
                THEN req.response = Redirect(SignupPath, emailLinkError)
                ELSE req.response = Redirect(DashboardPath, NULL)

C17_Witness ==
    /\ req.pc = "responded"
    /\ req.path = SignupPath
    /\ req.session
    /\ req.hops = 1
    /\ req.error_description = emailLinkError
    /\ req.response = Redirect(DashboardPath, NULL)

(***************************************************************************)
(* The tables under the data-access functions: every function is one       *)
(* awaited statement, which the database applies in one step               *)
(***************************************************************************)
MaxRows == 2

DbArgs == WsIds \cup FolderIds \cup FileIds \cup {EmptyId}

(* the rows the statement itself matched *)
Affected(d, entry) ==
    IF "issues" \in DOMAIN entry /\ entry.issues.kind = "delete"
    THEN Cardinality({r \in TableOf(d, entry.issues.table) :
                        r[entry.issues.column] = entry.issues.id})
    ELSE 0

(* an insert that violates a constraint is rejected and changes nothing; a
   function that returned before its statement changes nothing either *)
Execute(fn, id, entry, payload) ==
    /\ db' = IF /\ "issues" \in DOMAIN entry
                /\ entry.issues.kind = "insert" => Insertable(db, entry.issues, payload)
             THEN ApplyOp(db, entry.issues, payload)
             ELSE db
    /\ da' = [pc |-> "done", fn |-> fn, id |-> id, affected |-> Affected(db, entry)]
    /\ UNCHANGED <<storeVars, keyTest, serverVars, userEmail, calls, toast, handler, isEditing>>

DbCreateWorkspace ==
    \E w \in WsIds :
        Execute("createWorkspace", w, createWorkspace(WorkspaceRow(w, U1)),
                WorkspaceRow(w, U1))

DbCreateFolder ==
    \E w \in WsIds, f \in FolderIds :
        Execute("createFolder", f, createFolder(FolderRow(w, f)), FolderRow(w, f))

(* addNewFile passes the folder it is rendered for and the workspace that
   folder is listed under *)
DbCreateFile ==
    \E w \in WsIds, f \in FolderIds, g \in FileIds :
        /\ \A fo \in db.folders : fo.id = f => fo.workspaceId = w
        /\ Execute("createFile", g, createFile(NewFile(w, f, g)), NewFile(w, f, g))

(* the insert of one addCollaborators callback *)
DbAddCollaborator ==
    \E w \in WsIds, u \in UserIds :
        LET n == FreshRowId(db.collaborators)
        IN  /\ n <= MaxRows
            /\ Execute("addCollaborators", w, Issue("insert", "collaborators", "id", n),
                       CollaboratorRow(n, w, u))

DbDeleteWorkspace ==
    \E id \in DbArgs : Execute("deleteWorkspace", id, deleteWorkspace(id), NULL)

DbDeleteFolder == \E id \in DbArgs : Execute("deleteFolder", id, deleteFolder(id), NULL)

DbDeleteFile == \E id \in DbArgs : Execute("deleteFile", id, deleteFile(id), NULL)

NextDB ==
    \/ DbCreateWorkspace
    \/ DbCreateFolder
    \/ DbCreateFile
    \/ DbAddCollaborator
    \/ DbDeleteWorkspace
    \/ DbDeleteFolder
    \/ DbDeleteFile

SpecDB == Init /\ [][NextDB]_vars

Completed(d, fn) == d.pc = "done" /\ d.fn = fn /\ ~IsEmpty(d.id)

(* C15: deleteFolder(folderId) removes the folder row with that id and the
   files it contains from the tables, and no other row: every other folder
   and file, and every workspace and collaborator row, stays as it was. *)
C15_DeleteFolderRemovesFolderAndItsFiles ==
    [][Completed(da', "deleteFolder") =>
          /\ db'.folders = {r \in db.folders : r.id # da'.id}
          /\ db'.files = {r \in db.files : r.folderId # da'.id}
          /\ db'.workspaces = db.workspaces
          /\ db'.collaborators = db.collaborators]_vars

ReferentialIntegrity(d) ==
    /\ \A fo \in d.folders : \E w \in d.workspaces : w.id = fo.workspaceId
    /\ \A fi \in d.files :
          /\ \E fo \in d.folders : fo.id = fi.folderId
          /\ \E w \in d.workspaces : w.id = fi.workspaceId

(* C16: once deleteWorkspace(w) completed, the tables hold no workspace row w
   and no folder, file or collaborator row of workspace w, and the rows of
   every other workspace are the ones held before; and in every reachable
   state of the tables each folder refers to a workspace row that exists and
   each file to a folder row and a workspace row that exist. *)
C16_DeleteWorkspaceCascadesInPersistence ==
    /\ [](ReferentialIntegrity(db))
    /\ [][Completed(da', "deleteWorkspace") =>
             /\ db'.workspaces = {r \in db.workspaces : r.id # da'.id}
             /\ db'.folders = {r \in db.folders : r.workspaceId # da'.id}
             /\ db'.files = {r \in db.files : r.workspaceId # da'.id}
             /\ db'.collaborators = {r \in db.collaborators : r.workspaceId # da'.id}]_vars

(* a workspace row was deleted and the other workspace keeps a folder, a file
   and a collaborator *)
C16_Witness ==
    /\ Completed(da, "deleteWorkspace")
    /\ da.affected = 1
    /\ db.workspaces # {}
    /\ db.folders # {}
    /\ db.files # {}
    /\ db.collaborators # {}

(***************************************************************************)
(* CollaboratorSearch: the debounced search by email                       *)
(***************************************************************************)
MaxChanges == 3

(* the rows of the users table: it does not change here *)
Users == {[id |-> U1, email |-> <<"a", "b", "@">>], [id |-> U2, email |-> <<"b", "@">>]}

(* the values typed into the Email input *)
Typed == {<<>>, <<"a">>, <<"A", "b">>, <<"b">>}

Lower(ch) == CASE ch = "A" -> "a" [] ch = "B" -> "b" [] OTHER -> ch

(* ilike(column, pattern): LIKE without regard to case; % matches any run of
   characters and _ any one character *)
RECURSIVE ilike(_, _)
ilike(text, pattern) ==
    IF pattern = <<>> THEN text = <<>>
    ELSE IF Head(pattern) = "%"
    THEN ilike(text, Tail(pattern)) \/ (text # <<>> /\ ilike(Tail(text), pattern))
    ELSE /\ text # <<>>
         /\ Head(pattern) = "_" \/ Lower(Head(pattern)) = Lower(Head(text))
         /\ ilike(Tail(text), Tail(pattern))

getUsersFromSearch(email) ==
    IF email = <<>> THEN {}
    ELSE {u \in Users : ilike(u.email, email \o <<"%">>)}

SearchStep == UNCHANGED <<storeVars, keyTest, da, uiVars, tasks, log, listed, req>>

(* onChangeHandler: the timer of the previous change is cleared and a new one
   is set; its callback reads e.target.value when it runs *)
OnChangeHandler ==
    \E value \in Typed :
        /\ mounted
        /\ value # input
        /\ timerRef < MaxChanges
        /\ input' = value
        /\ timerRef' = timerRef + 1
        /\ timers' = (timers \ {timerRef}) \cup {timerRef + 1}
        /\ UNCHANGED <<mounted, searches, issuedQuery, searchResults>>
        /\ SearchStep

(* 450 ms have passed: the callback of a pending timer calls
   getUsersFromSearch(e.target.value) and awaits it *)
TimerFires ==
    \E t \in timers :
        /\ timers' = timers \ {t}
        /\ issuedQuery' = [n |-> issuedQuery.n + 1, email |-> input]
        /\ searches' = searches \cup {issuedQuery'}
        /\ UNCHANGED <<mounted, input, timerRef, searchResults>>
        /\ SearchStep

SearchRespondsMutant ==
    \E c \in searches :
        /\ searches' = searches \ {c}
        /\ searchResults' = IF mounted /\ c.n = issuedQuery.n
                            THEN getUsersFromSearch(c.email) ELSE searchResults
        /\ UNCHANGED <<mounted, input, timerRef, timers, issuedQuery>>
        /\ SearchStep

(* a call of getUsersFromSearch returns and the callback resumes:
   setSearchResults(res), which an unmounted component ignores *)
SearchResponds ==
    \E c \in searches :
        /\ searches' = searches \ {c}
        /\ searchResults' = IF mounted THEN getUsersFromSearch(c.email) ELSE searchResults
        /\ UNCHANGED <<mounted, input, timerRef, timers, issuedQuery>>
        /\ SearchStep

(* the cleanup of the effect: if (timerRef.current) clearTimeout(timerRef.current) *)
Unmount ==
    /\ mounted
    /\ mounted' = FALSE
    /\ timers' = IF timerRef # 0 THEN timers \ {timerRef} ELSE timers
    /\ UNCHANGED <<input, timerRef, searches, issuedQuery, searchResults>>
    /\ SearchStep

InitSearchSheet ==
    /\ InitStore
    /\ InitUIIdle
    /\ keyTest = KeyIdle
    /\ da = DaIdle
    /\ InitServerIdle

NextSearch ==
    \/ OnChangeHandler
    \/ TimerFires
    \/ SearchResponds
    \/ Unmount

SpecSearch == InitSearchSheet /\ [][NextSearch]_vars

(* C30: once no search is in flight the stored results are those of the most
   recently issued query, whatever the order the responses arrived in; and an
   input change made while a timer is pending cancels that timer, so at most
   one timer is pending and the search a timer starts is for the latest input
   value. *)
C30_ResultsAreThoseOfLatestQuery ==
    /\ [](/\ (mounted /\ searches = {} /\ issuedQuery.n > 0) =>
                searchResults = getUsersFromSearch(issuedQuery.email)
          /\ Cardinality(timers) <= 1)
    /\ [][/\ input' # input => timers' = {timerRef'}
          /\ issuedQuery' # issuedQuery => issuedQuery'.email = input
         ]_vars

(* C30 as the component behaves: the stored results are those of the search
   whose response arrived last, and nothing else changes them; an input
   change made while a timer is pending cancels that timer: at most one timer
   is pending, it is the one of the last change, and the search it starts is
   for the latest input value. *)
C30_ResultsAreThoseOfLastResponse ==
    /\ [](Cardinality(timers) <= 1)
    /\ [][/\ input' # input => timers' = {timerRef'}
          /\ issuedQuery' # issuedQuery => issuedQuery'.email = input
          /\ \A c \in searches \ searches' :
                mounted => searchResults' = getUsersFromSearch(c.email)
          /\ searches \subseteq searches' => searchResults' = searchResults
         ]_vars

(* two searches were made, the second after the input was changed again; the
   response of the first arrived last and its results are the ones stored *)
C30_Witness ==
    /\ mounted
    /\ timers = {}
    /\ searches = {}
    /\ issuedQuery.n = 2
    /\ issuedQuery.email = input
    /\ searchResults # getUsersFromSearch(issuedQuery.email)
    /\ searchResults # {}

====
